---- MODULE Spec2Model ----
(***************************************************************************)
(* A model of the poker trainer "thenuts": the card library, the simple    *)
(* hand evaluator of src/lib/poker.ts, the pokersolver wrapper, the        *)
(* process-wide random generator and the scenario generation of the game   *)
(* "The Nuts".                                                             *)
(*                                                                         *)
(* A card token is the pair <<rank, suit>> of its two characters, e.g.     *)
(* <<"A","h">> for "Ah".  A hand, a board, a pool and a deck are sequences *)
(* of card tokens, as the arrays of the source are.                        *)
(***************************************************************************)
EXTENDS Integers, Sequences, FiniteSets, TLC

VARIABLES
    \* ---- comparison harness (poker.ts compareHands on two 5-card hands)
    hand1,          \* first argument of compareHands
    hand2,          \* second argument of compareHands
    eval1,          \* evaluateHand(hand1).name once compared, "" before
    eval2,          \* evaluateHand(hand2).name once compared, "" before
    cmp,            \* result of compareHands(hand1, hand2) once compared
    compared,       \* TRUE once compareHands has returned
    \* ---- evaluation harness (poker.ts evaluateHand on 6 or 7 cards)
    cards7,         \* argument of evaluateHand
    evalMany,       \* evaluateHand(cards7).name once evaluated, "" before
    evaluated,      \* TRUE once evaluateHand has returned
    bestFive,       \* result of findBestHand(cards7) once searched, Null before
    searched,       \* TRUE once findBestHand has returned
    \* ---- nuts finder harness (wrapper findTheNuts on a board and a pool)
    board,          \* communityCards argument of findTheNuts
    pool,           \* availableCards argument of findTheNuts
    theNuts,        \* result of findTheNuts(board, pool) once found
    found,          \* TRUE once findTheNuts has returned
    \* ---- the game The Nuts
    currentLevel,   \* TheNuts.currentLevel
    utcHour,        \* the current UTC hour in ms, modulo 2^32, as <<hi, lo>>
    mathRandom,     \* hidden state of the browser's Math.random
    randomState,    \* the process-wide randomState of random.ts
    pc,             \* "constructed" | "initialized" | "failed" (initialize threw)
    scenarios,      \* BaseGame.scenarios
    previous,       \* <<scenarios of the run before the last reset>>, or Null
    resets,         \* number of reset() calls so far
    answered,       \* <<round, choice>> last given to checkAnswer, or Null
    accepted,       \* result of that checkAnswer call
    \* ---- parse harness (parseCard of cards.ts and of cards.js on one input)
    parseInput,     \* the argument of parseCard
    parseWith,      \* the file of the parseCard called, "" before the call
    parseResult,    \* <<the card returned>>, or Null before and after a throw
    parseThrew,     \* TRUE once parseCard has thrown
    \* ---- shuffle harness (one call of a shuffling function of the libraries)
    shufArray,      \* the array given to the call, as it was before the call
    shufSeed,       \* the seed given to the call, <<seed>> or Null
    shufCall,       \* the function called, "" before the call
    shufAfter,      \* the array given to the call, as it is after the call
    shufResult,     \* the array the call returned, Null before the call
    tsBefore,       \* randomState of random.ts before the call
    jsBefore,       \* randomState of cards.js before the call
    tsRandom,       \* randomState of random.ts
    jsRandom,       \* randomState of cards.js
    shufMath,       \* hidden state of Math.random
    \* ---- deck harness (a Deck of cards.ts or of cards.js)
    deckFile,       \* the file of the Deck class, "cards.ts" or "cards.js"
    deckOptions,    \* Deck.options: [shuffled, seed]
    deckCards,      \* Deck.cards
    dealtCards,     \* Deck.dealtCards
    deckRandom,     \* randomState of cards.js
    deckMath,       \* hidden state of Math.random
    deckOps,        \* number of reset, shuffle and deal calls so far
    \* ---- play harness (a mounted game of The Nuts, its timer and the router)
    playLevel,      \* TheNuts.currentLevel
    timeLimit,      \* BaseGame.config.timeLimit
    state,          \* BaseGame.state
    currentScenario,\* BaseGame.currentScenario: the round it belongs to, 0 for null
    answers,        \* BaseGame.answers: how many recorded answers are right, are wrong
    buttons,        \* the choice buttons: "none" | "enabled" | "disabled"
    pendingAdvance, \* TRUE while the setTimeout of submitAnswer has not fired
    timer,          \* BaseGame.timer: [duration, remaining, running, elapsed]
    completedLevels,\* the completed levels in storage
    marked,         \* the state at the last markLevelCompleted call, or Null
    mounted,        \* TRUE while the game is the module the router shows
    stored,         \* <<the state saved in sessionStorage>> while the player is away
    savedView,      \* round, score, streak and timer at the save, until the game moves on
    restoredView,   \* the same of the game restored from it, until the game moves on
    navigations,    \* number of times the player left the game
    \* ---- timer and session harness (a Timer; a BaseGame played through its methods)
    now,            \* Date.now(), in seconds
    tmr,            \* the Timer, or Null when the game has no time limit
    sConfig,        \* BaseGame.config: [rounds, timeLimit], timeLimit 0 for none
    sState,         \* BaseGame.state
    sScenario,      \* BaseGame.currentScenario: the round it belongs to, 0 for null
    sAnswers,       \* number of entries of BaseGame.answers
    sPending,       \* the setTimeout callbacks of submitAnswer not yet fired: for
                    \* each, the seconds that can still pass before it fires
    sAwaiting,      \* TRUE from an accepted answer to the next round or the end
    sEndings,       \* number of endGame() runs since the last reset()
    \* ---- router harness (lib/router.ts; a module is named by the path of its route)
    rPath,          \* Router.currentPath
    rModule,        \* Router.currentModule, "" for null
    rStorage,       \* sessionStorage: for each path, the module whose state is under its key
    rMounted,       \* the modules mounted and not unmounted since
    rPending,       \* the paths of the navigations awaiting their route loader
    rRestored,      \* the last mount: the module, and the module whose state it was given
    rFailed,        \* TRUE once a route loader has failed
    rCount,         \* number of navigations after the initial one
    \* ---- streak harness (the answer handlers of the games)
    kKind,          \* which handler the game answers with
    kState,         \* the game's state
    kRun,           \* the consecutive correct answers ending at the last answer
    kLongest        \* the longest run of consecutive correct answers so far

handVars == <<hand1, hand2, eval1, eval2, cmp, compared>>
manyVars == <<cards7, evalMany, evaluated, bestFive, searched>>
nutsVars == <<board, pool, theNuts, found>>
gameVars == <<currentLevel, utcHour, mathRandom, randomState, pc, scenarios, previous,
              resets, answered, accepted>>
parseVars == <<parseInput, parseWith, parseResult, parseThrew>>
shuffleVars == <<shufArray, shufSeed, shufCall, shufAfter, shufResult, tsBefore,
                 jsBefore, tsRandom, jsRandom, shufMath>>
deckVars == <<deckFile, deckOptions, deckCards, dealtCards, deckRandom, deckMath, deckOps>>
playVars == <<playLevel, timeLimit, state, currentScenario, answers, buttons, pendingAdvance,
              timer, completedLevels, marked, mounted, stored, savedView, restoredView,
              navigations>>
routerVars == <<rPath, rModule, rStorage, rMounted, rPending, rRestored, rFailed, rCount>>
streakVars == <<kKind, kState, kRun, kLongest>>
sessionVars == <<now, tmr, sConfig, sState, sScenario, sAnswers, sPending, sAwaiting,
                 sEndings>>
vars == <<handVars, manyVars, nutsVars, gameVars, parseVars, shuffleVars, deckVars,
          playVars, sessionVars, routerVars, streakVars>>

-----------------------------------------------------------------------------
(* Generic helpers                                                         *)

Min(a, b) == IF a < b THEN a ELSE b
Max(a, b) == IF a > b THEN a ELSE b

\* Body(value), with value evaluated once and before Body: the sequencing of
\* a statement that stores a result in a local constant.
Bind(value, Body(_)) == CHOOSE result \in {Body(v) : v \in {value}} : TRUE

Range(s) == {s[i] : i \in 1..Len(s)}

\* The null of the source is the empty sequence, a value v the sequence <<v>>.
Null == <<>>

\* The five elements of s at the index sequence idx.
Pick(s, idx) == <<s[idx[1]], s[idx[2]], s[idx[3]], s[idx[4]], s[idx[5]]>>

\* All strictly increasing sequences of k indices in lo..n, in the
\* lexicographic order in which nested loops i<j<... enumerate them.
RECURSIVE IncSeqs(_, _, _)
IncSeqs(lo, n, k) ==
    IF k = 0 THEN << <<>> >>
    ELSE IF lo > n THEN <<>>
    ELSE LET with == IncSeqs(lo + 1, n, k - 1)
         IN  [x \in 1..Len(with) |-> <<lo>> \o with[x]] \o IncSeqs(lo + 1, n, k)

-----------------------------------------------------------------------------
(* Card library                                                            *)

RANKS == <<"2", "3", "4", "5", "6", "7", "8", "9", "T", "J", "Q", "K", "A">>
SUITS == <<"h", "d", "c", "s">>

\* String.prototype.toUpperCase / toLowerCase on one character of a token.
UpperCaseOf ==
    ("a" :> "A") @@ ("k" :> "K") @@ ("q" :> "Q") @@ ("j" :> "J") @@ ("t" :> "T")
    @@ ("h" :> "H") @@ ("d" :> "D") @@ ("c" :> "C") @@ ("s" :> "S")

toUpperCase(ch) == IF ch \in DOMAIN UpperCaseOf THEN UpperCaseOf[ch] ELSE ch

LowerCaseOf ==
    ("A" :> "a") @@ ("K" :> "k") @@ ("Q" :> "q") @@ ("J" :> "j") @@ ("T" :> "t")
    @@ ("H" :> "h") @@ ("D" :> "d") @@ ("C" :> "c") @@ ("S" :> "s")

toLowerCase(ch) == IF ch \in DOMAIN LowerCaseOf THEN LowerCaseOf[ch] ELSE ch

\* parseCard on a two-character string token that matches
\* /^(10|[2-9TJQKA])([hdcs])$/i: the rank upper-cased, the suit lower-cased.
parseCard(card) == [rank |-> toUpperCase(card[1]), suit |-> toLowerCase(card[2])]

\* A string of any length is the sequence of its characters.  The suit
\* symbols U+2665, U+2666, U+2663 and U+2660 are the characters "u2665",
\* "u2666", "u2663" and "u2660".
lowerCase(s) == [i \in 1..Len(s) |-> toLowerCase(s[i])]
upperCase(s) == [i \in 1..Len(s) |-> toUpperCase(s[i])]

\* The value undefined of a property that an object does not have.
Undefined == <<"undefined">>

\* SUIT_SYMBOLS, as the sequence of its <<key, value>> entries in key order.
SUIT_SYMBOLS ==
    << <<<<"h">>, "u2665">>, <<<<"h","e","a","r","t","s">>, "u2665">>, <<<<"u2665">>, "u2665">>,
       <<<<"d">>, "u2666">>, <<<<"d","i","a","m","o","n","d","s">>, "u2666">>,
       <<<<"u2666">>, "u2666">>,
       <<<<"c">>, "u2663">>, <<<<"c","l","u","b","s">>, "u2663">>, <<<<"u2663">>, "u2663">>,
       <<<<"s">>, "u2660">>, <<<<"s","p","a","d","e","s">>, "u2660">>, <<<<"u2660">>, "u2660">> >>

\* SUIT_SYMBOLS[suit] is defined
HasSuitSymbol(suit) == \E k \in 1..Len(SUIT_SYMBOLS) : SUIT_SYMBOLS[k][1] = suit

\* card.match(/^(10|[2-9TJQKA])([hdcs])$/i): <<match[1], match[2]>>, or Null
\* when the string does not match.  Under the flag i a character matches a
\* class when its upper case is the upper case of a character of the class.
matchCard(card) ==
    IF /\ Len(card) = 3
       /\ card[1] = "1"
       /\ card[2] = "0"
       /\ toUpperCase(card[3]) \in {"H", "D", "C", "S"}
    THEN <<SubSeq(card, 1, 2), <<card[3]>>>>
    ELSE IF /\ Len(card) = 2
            /\ toUpperCase(card[1]) \in {"2", "3", "4", "5", "6", "7", "8", "9",
                                          "T", "J", "Q", "K", "A"}
            /\ toUpperCase(card[2]) \in {"H", "D", "C", "S"}
         THEN <<<<card[1]>>, <<card[2]>>>>
         ELSE Null

\* suitKey of the object branch of parseCard: the lower-cased suit when it is
\* a key of SUIT_SYMBOLS, else the first key whose symbol is card.suit, else
\* the lower-cased suit.
suitKeyOf(cardSuit) ==
    IF HasSuitSymbol(lowerCase(cardSuit)) THEN lowerCase(cardSuit)
    ELSE IF \E k \in 1..Len(SUIT_SYMBOLS) : <<SUIT_SYMBOLS[k][2]>> = cardSuit
         THEN SUIT_SYMBOLS[CHOOSE k \in 1..Len(SUIT_SYMBOLS) :
                              /\ <<SUIT_SYMBOLS[k][2]>> = cardSuit
                              /\ \A m \in 1..(k - 1) : <<SUIT_SYMBOLS[m][2]>> /= cardSuit][1]
         ELSE lowerCase(cardSuit)

\* parseCard(card) of cards.ts on any argument.  An argument is
\* [type, text, rank, suit]: type is the result of typeof ("object" for
\* null too, isNull telling them apart), text the characters of a string,
\* rank and suit the properties of an object.  The outcome is
\* [threw, rank, suit]; reading a property of null throws a TypeError.
parseCardOutcome(card) ==
    IF card.type = "string"
    THEN LET match == matchCard(card.text)
         IN  IF match = Null
             THEN [threw |-> TRUE, rank |-> Null, suit |-> Null]
             ELSE [threw |-> FALSE,
                   rank |-> IF upperCase(match[1]) = <<"1", "0">> THEN <<"T">>
                            ELSE upperCase(match[1]),
                   suit |-> lowerCase(match[2])]
    ELSE IF card.type = "object" /\ card.isNull
    THEN [threw |-> TRUE, rank |-> Null, suit |-> Null]
    ELSE IF /\ card.type = "object"
            /\ card.rank \notin {Undefined, <<>>}
            /\ card.suit \notin {Undefined, <<>>}
    THEN [threw |-> FALSE,
          rank |-> IF card.rank = <<"1", "0">> THEN <<"T">> ELSE card.rank,
          suit |-> suitKeyOf(card.suit)]
    ELSE [threw |-> TRUE, rank |-> Null, suit |-> Null]

\* parseCard(card) of cards.js on any argument.
parseCardJsOutcome(card) ==
    IF card.type = "string"
    THEN LET match == matchCard(card.text)
         IN  IF match = Null
             THEN [threw |-> TRUE, rank |-> Null, suit |-> Null]
             ELSE [threw |-> FALSE,
                   rank |-> IF upperCase(match[1]) = <<"1", "0">> THEN <<"T">>
                            ELSE upperCase(match[1]),
                   suit |-> lowerCase(match[2])]
    ELSE IF card.type = "object" /\ card.isNull
    THEN [threw |-> TRUE, rank |-> Null, suit |-> Null]
    ELSE IF card.type = "object"
    THEN [threw |-> FALSE,
          rank |-> IF card.rank = <<"1", "0">> THEN <<"T">> ELSE card.rank,
          suit |-> IF card.suit \in {Undefined, <<>>} THEN suitKeyOf(<<>>)
                   ELSE suitKeyOf(card.suit)]
    ELSE [threw |-> TRUE, rank |-> Null, suit |-> Null]

\* generateDeck({shuffled: false}): rank-major, suit-minor.
generateDeck ==
    [i \in 1..(Len(RANKS) * Len(SUITS)) |->
        <<RANKS[((i - 1) \div Len(SUITS)) + 1], SUITS[((i - 1) % Len(SUITS)) + 1]>>]

-----------------------------------------------------------------------------
(* src/lib/random.ts                                                       *)
(*                                                                         *)
(* A 32-bit word is the pair <<hi, lo>> of its 16-bit halves, so that no   *)
(* intermediate value leaves the range of the model checker's integers.    *)
(* The bit operators of the source convert their operands to 32 bits, so   *)
(* the generator's results depend on its counter modulo 2^32 only.         *)

\* a ^ b on n-bit operands, the halves of the operands separately.
XorBits[a \in Nat, b \in Nat, n \in Nat] ==
    IF n <= 1 THEN (a + b) % 2
    ELSE (XorBits[a \div (2 ^ (n \div 2)), b \div (2 ^ (n \div 2)), n - (n \div 2)]
             * (2 ^ (n \div 2)))
         + XorBits[a % (2 ^ (n \div 2)), b % (2 ^ (n \div 2)), n \div 2]

\* a | b on n-bit operands, the halves of the operands separately.
OrBits[a \in Nat, b \in Nat, n \in Nat] ==
    IF n <= 1 THEN (IF a + b > 0 THEN 1 ELSE 0)
    ELSE (OrBits[a \div (2 ^ (n \div 2)), b \div (2 ^ (n \div 2)), n - (n \div 2)]
             * (2 ^ (n \div 2)))
         + OrBits[a % (2 ^ (n \div 2)), b % (2 ^ (n \div 2)), n \div 2]

Xor32(a, b) == <<XorBits[a[1], b[1], 16], XorBits[a[2], b[2], 16]>>
Or32(a, b) == <<OrBits[a[1], b[1], 16], OrBits[a[2], b[2], 16]>>
Add32(a, b) ==
    <<(a[1] + b[1] + ((a[2] + b[2]) \div 65536)) % 65536, (a[2] + b[2]) % 65536>>

\* a >>> k for 0 < k < 16
Shr32(a, k) ==
    LET p == 2 ^ k
        q == 2 ^ (16 - k)
    IN  <<a[1] \div p, ((a[1] % p) * q) + (a[2] \div p)>>

\* x * y modulo 2^16 for 16-bit x, y
MulLow16(x, y) == (((((x \div 256) * y) % 256) * 256) + ((x % 256) * y)) % 65536

\* Math.imul(a, b): the low 32 bits of the product
Imul32(a, b) ==
    LET p0 == (a[2] % 256) * b[2]
        p1 == (a[2] \div 256) * b[2]
        low == ((p1 % 256) * 256) + p0
        carry == (p1 \div 256) + (low \div 65536)
    IN  <<(MulLow16(a[1], b[2]) + MulLow16(a[2], b[1]) + carry) % 65536, low % 65536>>

\* One call of the closure mulberry32(seed) returns: its counter after the
\* call and the 32-bit numerator u of the value u / 4294967296 it returns.
mulberry32(counter) ==
    Bind(Add32(counter, <<27947, 31221>>), LAMBDA seed :    \* seed += 0x6D2B79F5
    Bind(Xor32(seed, Shr32(seed, 15)), LAMBDA s15 :
    Bind(Imul32(s15, Or32(seed, <<0, 1>>)), LAMBDA t1 :
    Bind(Xor32(t1, Shr32(t1, 7)), LAMBDA s7 :
    Bind(Xor32(t1, Add32(t1, Imul32(s7, Or32(t1, <<0, 61>>)))), LAMBDA t2 :
        [counter |-> seed, value |-> Xor32(t2, Shr32(t2, 14))])))))

\* Math.floor(value * n) for the value u / 4294967296 and 0 < n <= 64
FloorTimes(u, n) == ((u[1] * n) + ((u[2] * n) \div 65536)) \div 65536

\* The 32-bit word <<hi, lo>> a generator of mulberry32 computes with for the
\* integer n, that is n modulo 2^32 (-2^16 < n < 2^31).
Word(n) ==
    IF n >= 0 THEN <<n \div 65536, n % 65536>>
    ELSE <<65535, 65536 + n>>

\* setSeed(seed): the process-wide randomState after the call.
setSeed(seed) ==
    IF seed = Null THEN [seed |-> Null, generator |-> Null]
    ELSE [seed |-> seed, generator |-> seed]

\* resetRandom()
resetRandom == setSeed(Null)

\* Math.random(): the browser's own generator.  Its state is hidden from the
\* program; a call advances it and returns a value in [0, 1), here the value
\* the generator of the card library would return from that state.
MathRandom(hidden) ==
    LET next == (((hidden * 9000) % 233280) + ((hidden * 301) % 233280) + 49297) % 233280
    IN  [hidden |-> next, num |-> next, den |-> 233280]

\* getRandom() in the environment env = [randomState, mathRandom]: the
\* environment after the call and Math.floor(value * n) of its value.
getRandomFloor(env, n) ==
    IF env.randomState.generator /= Null
    THEN LET g == mulberry32(env.randomState.generator[1])
         IN  [env |-> [env EXCEPT !.randomState.generator = <<g.counter>>],
              floor |-> FloorTimes(g.value, n)]
    ELSE LET m == MathRandom(env.mathRandom)
         IN  [env |-> [env EXCEPT !.mathRandom = m.hidden],
              floor |-> (m.num * n) \div m.den]

\* One iteration of the loop of shuffleArray for the 0-based index i on
\* st = [array, env]: newArray and the environment getRandom() draws in.
ShuffleArrayBody(i, st) ==
    Bind(getRandomFloor(st.env, i + 1), LAMBDA r :
        [array |-> [st.array EXCEPT ![i + 1] = st.array[r.floor + 1],
                                    ![r.floor + 1] = st.array[i + 1]],
         env |-> r.env])

\* for (i = hi; i >= lo; i--) of shuffleArray.  The range is split in halves
\* so that the evaluation stays shallow; the iterations are applied in
\* decreasing order of i, the upper half being evaluated before the lower.
RECURSIVE ShuffleArrayLoop(_, _, _)
ShuffleArrayLoop(lo, hi, st) ==
    IF lo > hi THEN st
    ELSE IF lo = hi THEN ShuffleArrayBody(lo, st)
    ELSE Bind(ShuffleArrayLoop(((lo + hi) \div 2) + 1, hi, st), LAMBDA upper :
             ShuffleArrayLoop(lo, (lo + hi) \div 2, upper))

\* shuffleArray(array): a shuffled copy, drawn from getRandom().
shuffleArray(array, env) ==
    ShuffleArrayLoop(1, Len(array) - 1, [array |-> array, env |-> env])

\* createSeededRandom(seed).shuffle(array) of random.ts: the loop of
\* shuffleArray on a private generator mulberry32(seed); the process-wide
\* randomState is neither read nor written.
seededShuffle(array, seed, env) ==
    [array |-> ShuffleArrayLoop(1, Len(array) - 1,
                   [array |-> array,
                    env |-> [randomState |-> setSeed(seed), mathRandom |-> 0]]).array,
     env |-> env]

-----------------------------------------------------------------------------
(* Card library: shuffling                                                 *)

\* createSeededRandom(seed) of the card library: one call of the closure,
\* s = (s * 9301 + 49297) % 233280.  The remainder of JavaScript has the sign
\* of the dividend, so a negative s gives a negative (or zero) remainder once
\* s * 9301 + 49297 is negative.  The product is taken in two parts to stay
\* within the integers of the checker.
createSeededRandom(st) ==
    LET m == IF st >= 0 THEN st ELSE 0 - st
        prod == (((m * 9000) % 233280) + ((m * 301) % 233280)) % 233280
        next == IF st >= 0 THEN (prod + 49297) % 233280
                ELSE IF m <= 49297 \div 9301 THEN 49297 - (m * 9301)
                ELSE 0 - ((prod + 233280 - 49297) % 233280)
    IN  [s |-> next, num |-> next, den |-> 233280]

\* One iteration of the loop of shuffleDeck for the 0-based index i on
\* st = [deck, s]: s is the state of the seeded closure of the library when
\* seeded, the hidden state of Math.random otherwise.
ShuffleDeckBody(i, seeded, st) ==
    LET r == IF seeded THEN createSeededRandom(st.s)
             ELSE LET m == MathRandom(st.s)
                  IN  [s |-> m.hidden, num |-> m.num, den |-> m.den]
        j == (r.num * (i + 1)) \div r.den
        atJ == IF j \in 0..(Len(st.deck) - 1) THEN st.deck[j + 1] ELSE Undefined
    IN  [deck |-> [k \in 1..Len(st.deck) |->
                      IF k = j + 1 THEN st.deck[i + 1]
                      ELSE IF k = i + 1 THEN atJ
                      ELSE st.deck[k]],
         s |-> r.s]

\* for (i = hi; i >= lo; i--) of shuffleDeck.  The range is split in halves
\* so that the evaluation stays shallow; the iterations are applied in
\* decreasing order of i, the upper half being evaluated before the lower.
RECURSIVE ShuffleDeckLoop(_, _, _, _)
ShuffleDeckLoop(lo, hi, seeded, st) ==
    IF lo > hi THEN st
    ELSE IF lo = hi THEN ShuffleDeckBody(lo, seeded, st)
    ELSE LET mid == (lo + hi) \div 2
             upper == ShuffleDeckLoop(mid + 1, hi, seeded, st)
         IN  IF upper = st THEN ShuffleDeckLoop(lo, mid, seeded, st)
             ELSE ShuffleDeckLoop(lo, mid, seeded, upper)

\* shuffleDeck(deck, seed) in the environment env: the shuffled copy and the
\* environment after the call.  Without a seed it draws from Math.random; the
\* process-wide randomState is neither read nor written.
shuffleDeck(deck, seed, env) ==
    IF seed /= Null
    THEN [deck |-> ShuffleDeckLoop(1, Len(deck) - 1, TRUE,
                       [deck |-> deck, s |-> seed[1]]).deck,
          env |-> env]
    ELSE LET r == ShuffleDeckLoop(1, Len(deck) - 1, FALSE,
                      [deck |-> deck, s |-> env.mathRandom])
         IN  [deck |-> r.deck, env |-> [env EXCEPT !.mathRandom = r.s]]

\* generateDeck({shuffled, seed}) of cards.ts in the environment env.
generateDeckWith(shuffled, seed, env) ==
    IF shuffled THEN shuffleDeck(generateDeck, seed, env)
    ELSE [deck |-> generateDeck, env |-> env]

\* Deck.deal(count): pops up to count cards from the end of cards and pushes
\* each onto dealtCards.  The same code in cards.ts and in cards.js.
DeckDeal(cards, dealt, count) ==
    LET n == Min(count, Len(cards))
    IN  [cards |-> SubSeq(cards, 1, Len(cards) - n),
         dealtCards |-> dealt \o [k \in 1..n |-> cards[Len(cards) + 1 - k]]]

\* Deck.reset() of cards.ts for the options of the deck.
DeckReset(options, env) == generateDeckWith(options.shuffled, options.seed, env)

\* Deck.shuffle(seed) of cards.ts: this.cards = shuffleDeck(this.cards, seed).
DeckShuffle(cards, seed, env) == shuffleDeck(cards, seed, env)

-----------------------------------------------------------------------------
(* The legacy card library cards.js.  It has its own randomState, setSeed  *)
(* and getRandom, the same code as those of random.ts; env.randomState is  *)
(* that state here.                                                        *)

\* shuffleArray(array) of cards.js: shuffles the array it is given, in place,
\* and returns it.
shuffleArrayJs(array, env) ==
    ShuffleArrayLoop(1, Len(array) - 1, [array |-> array, env |-> env])

\* shuffleDeck(deck, seed) of cards.js: a shuffled copy; with a seed it calls
\* setSeed(seed) before shuffling and setSeed(null) after.
shuffleDeckJs(deck, seed, env) ==
    IF seed /= Null
    THEN Bind(shuffleArrayJs(deck, [env EXCEPT !.randomState = setSeed(seed)]),
              LAMBDA sh : [deck |-> sh.array,
                           env |-> [sh.env EXCEPT !.randomState = setSeed(Null)]])
    ELSE Bind(shuffleArrayJs(deck, env),
              LAMBDA sh : [deck |-> sh.array, env |-> sh.env])

\* generateDeck({shuffled, seed}) of cards.js.
generateDeckJs(shuffled, seed, env) ==
    IF shuffled THEN shuffleDeckJs(generateDeck, seed, env)
    ELSE [deck |-> generateDeck, env |-> env]

\* Deck.reset() of cards.js for the options of the deck.
DeckResetJs(options, env) == generateDeckJs(options.shuffled, options.seed, env)

\* Deck.shuffle(seed) of cards.js: shuffles this.cards in place between
\* setSeed(seed) and setSeed(null) when a seed is given.
DeckShuffleJs(cards, seed, env) ==
    IF seed /= Null
    THEN Bind(shuffleArrayJs(cards, [env EXCEPT !.randomState = setSeed(seed)]),
              LAMBDA sh : [deck |-> sh.array,
                           env |-> [sh.env EXCEPT !.randomState = setSeed(Null)]])
    ELSE Bind(shuffleArrayJs(cards, env),
              LAMBDA sh : [deck |-> sh.array, env |-> sh.env])

-----------------------------------------------------------------------------
(* src/lib/poker.ts                                                        *)

getRankValue(rank) ==
    CASE rank = "A" -> 14
      [] rank = "K" -> 13
      [] rank = "Q" -> 12
      [] rank = "J" -> 11
      [] rank = "T" -> 10
      [] rank = "9" -> 9
      [] rank = "8" -> 8
      [] rank = "7" -> 7
      [] rank = "6" -> 6
      [] rank = "5" -> 5
      [] rank = "4" -> 4
      [] rank = "3" -> 3
      [] rank = "2" -> 2

\* Array.prototype.sort((a, b) => value(b) - value(a)) on a sequence of
\* numbers: descending.
RECURSIVE SortNumsDesc(_)
SortNumsDesc(S) ==
    IF S = {} THEN <<>>
    ELSE LET m == CHOOSE x \in S : \A y \in S : y <= x
         IN  <<m>> \o SortNumsDesc(S \ {m})

\* cards.sort((a, b) => getRankValue(b.rank) - getRankValue(a.rank)):
\* descending by rank value, stable (equal ranks keep their order).
SortCardsDesc(cards) ==
    LET n == Len(cards)
        v(i) == getRankValue(parseCard(cards[i]).rank)
        pos(i) == 1 + Cardinality({j \in 1..n :
                        v(j) > v(i) \/ (v(j) = v(i) /\ j < i)})
    IN  [p \in 1..n |-> cards[CHOOSE i \in 1..n : pos(i) = p]]

\* A variant that asks for four cards of a suit only.
isFlushOfFour(cards) ==
    IF Len(cards) < 5 THEN FALSE
    ELSE \E s \in Range(SUITS) :
            Cardinality({i \in 1..Len(cards) : parseCard(cards[i]).suit = s}) >= 4

isFlush(cards) ==
    IF Len(cards) < 5 THEN FALSE
    ELSE \E s \in Range(SUITS) :
            Cardinality({i \in 1..Len(cards) : parseCard(cards[i]).suit = s}) >= 5

isStraight(cards) ==
    IF Len(cards) < 5 THEN FALSE
    ELSE LET rankValues == SortNumsDesc(
                 {getRankValue(parseCard(cards[i]).rank) : i \in 1..Len(cards)})
         IN  \/ \E i \in 1..(Len(rankValues) - 4) :
                    \A j \in 0..3 : rankValues[i + j] - rankValues[i + j + 1] = 1
             \/ {14, 2, 3, 4, 5} \subseteq Range(rankValues)

isStraightFlush(cards) ==
    IF Len(cards) < 5 THEN FALSE
    ELSE \E s \in Range(SUITS) :
            LET suitCards == SelectSeq(cards, LAMBDA c : parseCard(c).suit = s)
            IN  Len(suitCards) >= 5 /\ isStraight(suitCards)

\* countRanks: rank -> number of cards of that rank.
countRanks(cards) ==
    [r \in Range(RANKS) |->
        Cardinality({i \in 1..Len(cards) : parseCard(cards[i]).rank = r})]

\* The ranks occurring exactly n times, as rank values, descending.
RanksWithCount(cards, n) ==
    LET counts == countRanks(cards)
    IN  SortNumsDesc({getRankValue(r) : r \in {q \in Range(RANKS) : counts[q] = n}})

getPairs(cards) == RanksWithCount(cards, 2)
getThreeOfAKinds(cards) == RanksWithCount(cards, 3)
getFourOfAKinds(cards) == RanksWithCount(cards, 4)

evaluateHand(cards) ==
    LET isRoyalFlush == isStraightFlush(cards)
                        /\ \E i \in 1..Len(cards) : parseCard(cards[i]).rank = "A"
        fours == getFourOfAKinds(cards)
        threes == getThreeOfAKinds(cards)
        pairs == getPairs(cards)
    IN  IF Len(cards) < 5 THEN [name |-> "High Card", rank |-> 1]
        ELSE IF isRoyalFlush THEN [name |-> "Royal Flush", rank |-> 10]
        ELSE IF isStraightFlush(cards) THEN [name |-> "Straight Flush", rank |-> 9]
        ELSE IF Len(fours) > 0 THEN [name |-> "Four of a Kind", rank |-> 8]
        ELSE IF Len(threes) > 0 /\ Len(pairs) > 0 THEN [name |-> "Full House", rank |-> 7]
        ELSE IF isFlush(cards) THEN [name |-> "Flush", rank |-> 6]
        ELSE IF isStraight(cards) THEN [name |-> "Straight", rank |-> 5]
        ELSE IF Len(threes) > 0 THEN [name |-> "Three of a Kind", rank |-> 4]
        ELSE IF Len(pairs) >= 2 THEN [name |-> "Two Pair", rank |-> 3]
        ELSE IF Len(pairs) = 1 THEN [name |-> "Pair", rank |-> 2]
        ELSE [name |-> "High Card", rank |-> 1]

\* The first non-zero difference of rank values of two card lists compared
\* position by position up to the shorter length; 0 when there is none.
RECURSIVE FirstRankDiff(_, _, _)
FirstRankDiff(a, b, i) ==
    IF i > Min(Len(a), Len(b)) THEN 0
    ELSE LET comp == getRankValue(parseCard(a[i]).rank)
                     - getRankValue(parseCard(b[i]).rank)
         IN  IF comp /= 0 THEN comp ELSE FirstRankDiff(a, b, i + 1)

\* cards.filter(c => c.rank !== rank).sort(descending by rank value)
Kickers(cards, rankValue) ==
    SortCardsDesc(SelectSeq(cards,
        LAMBDA c : getRankValue(parseCard(c).rank) /= rankValue))

\* cards.find(c => !pairs.includes(c.rank)): the first such card.
FirstNotIn(cards, pairs) ==
    LET idx == {i \in 1..Len(cards) :
                   getRankValue(parseCard(cards[i]).rank) \notin Range(pairs)}
    IN  IF idx = {} THEN <<>>
        ELSE <<cards[CHOOSE i \in idx : \A j \in idx : i <= j]>>

compareHands(h1, h2) ==
    LET e1 == evaluateHand(h1)
        e2 == evaluateHand(h2)
    IN  IF e1.rank /= e2.rank THEN e1.rank - e2.rank
        ELSE CASE e1.name = "Four of a Kind" ->
                    LET quadComp == getFourOfAKinds(h1)[1] - getFourOfAKinds(h2)[1]
                    IN  IF quadComp /= 0 THEN quadComp ELSE 0
               [] e1.name = "Full House" ->
                    LET tripComp == getThreeOfAKinds(h1)[1] - getThreeOfAKinds(h2)[1]
                    IN  IF tripComp /= 0 THEN tripComp
                        ELSE getPairs(h1)[1] - getPairs(h2)[1]
               [] e1.name \in {"Flush", "Straight", "High Card"} ->
                    FirstRankDiff(SortCardsDesc(h1), SortCardsDesc(h2), 1)
               [] e1.name = "Three of a Kind" ->
                    LET trips1 == getThreeOfAKinds(h1)[1]
                        trips2 == getThreeOfAKinds(h2)[1]
                    IN  IF trips1 - trips2 /= 0 THEN trips1 - trips2
                        ELSE FirstRankDiff(Kickers(h1, trips1), Kickers(h2, trips2), 1)
               [] e1.name = "Two Pair" ->
                    LET pairs1 == getPairs(h1)
                        pairs2 == getPairs(h2)
                        kicker1 == FirstNotIn(h1, pairs1)
                        kicker2 == FirstNotIn(h2, pairs2)
                    IN  IF pairs1[1] - pairs2[1] /= 0 THEN pairs1[1] - pairs2[1]
                        ELSE IF pairs1[2] - pairs2[2] /= 0 THEN pairs1[2] - pairs2[2]
                        ELSE IF kicker1 /= <<>> /\ kicker2 /= <<>>
                             THEN FirstRankDiff(kicker1, kicker2, 1)
                        ELSE 0
               [] e1.name = "Pair" ->
                    LET pair1 == getPairs(h1)[1]
                        pair2 == getPairs(h2)[1]
                    IN  IF pair1 - pair2 /= 0 THEN pair1 - pair2
                        ELSE FirstRankDiff(Kickers(h1, pair1), Kickers(h2, pair2), 1)
               [] OTHER -> 0

-----------------------------------------------------------------------------
(* The pokersolver library (window.Hand), loaded from a CDN and not part   *)
(* of the repository.  It is modelled as the standard evaluator of the     *)
(* specification: a category and a tiebreak rank sequence, compared        *)
(* category first and then lexicographically.                              *)

\* The value of a rank character in the library: 2..14.
SolverValue ==
    ("2" :> 2) @@ ("3" :> 3) @@ ("4" :> 4) @@ ("5" :> 5) @@ ("6" :> 6) @@ ("7" :> 7)
    @@ ("8" :> 8) @@ ("9" :> 9) @@ ("T" :> 10) @@ ("J" :> 11) @@ ("Q" :> 12)
    @@ ("K" :> 13) @@ ("A" :> 14)

\* The rank values of a 5-card hand.
SolverValues(cards) ==
    <<SolverValue[cards[1][1]], SolverValue[cards[2][1]], SolverValue[cards[3][1]],
      SolverValue[cards[4][1]], SolverValue[cards[5][1]]>>

\* How many of the five values equal the i-th.
SolverCount(rv, i) ==
    (IF rv[1] = rv[i] THEN 1 ELSE 0) + (IF rv[2] = rv[i] THEN 1 ELSE 0)
    + (IF rv[3] = rv[i] THEN 1 ELSE 0) + (IF rv[4] = rv[i] THEN 1 ELSE 0)
    + (IF rv[5] = rv[i] THEN 1 ELSE 0)

\* The five numbers of k in descending order, by the nine compare-exchange
\* steps (1,2) (4,5) (3,5) (3,4) (2,5) (1,4) (1,3) (2,4) (2,3).
SortFiveDesc(k) ==
    LET h1 == Max(k[1], k[2])
        l1 == Min(k[1], k[2])
        h2 == Max(k[4], k[5])
        l2 == Min(k[4], k[5])
        h3 == Max(k[3], l2)
        l3 == Min(k[3], l2)
        h4 == Max(h3, h2)
        l4 == Min(h3, h2)
        h5 == Max(l1, l3)
        l5 == Min(l1, l3)
        h6 == Max(h1, l4)
        l6 == Min(h1, l4)
        h7 == Max(h6, h4)
        l7 == Min(h6, h4)
        h8 == Max(h5, l6)
        l8 == Min(h5, l6)
        h9 == Max(h8, l7)
        l9 == Min(h8, l7)
    IN  <<h7, h9, l9, l8, l5>>

\* Each value of rv under the key 16 * multiplicity + value, keys descending.
SolverKeys(rv) ==
    SortFiveDesc(<<(SolverCount(rv, 1) * 16) + rv[1], (SolverCount(rv, 2) * 16) + rv[2],
                   (SolverCount(rv, 3) * 16) + rv[3], (SolverCount(rv, 4) * 16) + rv[4],
                   (SolverCount(rv, 5) * 16) + rv[5]>>)

\* The values rv ordered by multiplicity and then by value, descending.
ByCountThenValue(rv) ==
    LET key == SolverKeys(rv)
    IN  <<key[1] % 16, key[2] % 16, key[3] % 16, key[4] % 16, key[5] % 16>>

\* Hand.solve on a 5-card hand.
\*   category: 1 High Card, 2 Pair, 3 Two Pair, 4 Three of a Kind,
\*     5 Straight, 6 Flush, 7 Full House, 8 Four of a Kind, 9 Straight Flush
\*     (the royal flush is the ace-high straight flush);
\*   tiebreak: the ranks ordered by multiplicity and then by rank,
\*     descending; in the wheel A-2-3-4-5 the ace counts 1;
\*   strength: category and tiebreak as one number, a < b exactly when a's
\*     <<category, tiebreak>> is lexicographically below b's;
\*   descr: the description, up to the ranks it names.
SolverSolve(cards) ==
    Bind(SolverKeys(SolverValues(cards)), LAMBDA key :
        LET byCount == <<key[1] % 16, key[2] % 16, key[3] % 16, key[4] % 16, key[5] % 16>>
            t == IF byCount = <<14, 5, 4, 3, 2>> THEN <<5, 4, 3, 2, 1>> ELSE byCount
            \* sum of the multiplicities: 5 all distinct, 7 one pair, 9 two pair,
            \* 11 three of a kind, 13 full house, 17 four of a kind
            mult == (key[1] \div 16) + (key[2] \div 16) + (key[3] \div 16)
                    + (key[4] \div 16) + (key[5] \div 16)
            flush == /\ cards[2][2] = cards[1][2] /\ cards[3][2] = cards[1][2]
                     /\ cards[4][2] = cards[1][2] /\ cards[5][2] = cards[1][2]
            straight == mult = 5 /\ t[1] - t[5] = 4
            c == IF straight /\ flush THEN 9
                 ELSE IF mult = 17 THEN 8
                 ELSE IF mult = 13 THEN 7
                 ELSE IF flush THEN 6
                 ELSE IF straight THEN 5
                 ELSE IF mult = 11 THEN 4
                 ELSE IF mult = 9 THEN 3
                 ELSE IF mult = 7 THEN 2
                 ELSE 1
        IN  [category |-> c,
             tiebreak |-> t,
             strength |-> (c * 759375) + (t[1] * 50625) + (t[2] * 3375) + (t[3] * 225)
                              + (t[4] * 15) + t[5],
             descr |-> <<"High Card", "Pair", "Two Pair", "Three of a Kind", "Straight",
                         "Flush", "Full House", "Four of a Kind",
                         IF t[1] = 14 THEN "Royal Flush" ELSE "Straight Flush">>[c]])

SolverCategory(cards) == SolverSolve(cards).category
SolverTiebreak(cards) == SolverSolve(cards).tiebreak
SolverStrength(cards) == SolverSolve(cards).strength
SolverDescr(cards) == SolverSolve(cards).descr

\* Hand.winners([a, b]) on two solved hands: 1 when only a wins, -1 when only
\* b wins, 0 when both are returned.
SolverWinners(a, b) ==
    IF a.strength > b.strength THEN 1
    ELSE IF a.strength < b.strength THEN -1
    ELSE 0


-----------------------------------------------------------------------------
(* src/lib/pokersolver-wrapper.ts                                          *)

toPokerSolverFormat(card) == <<toUpperCase(card[1]), toLowerCase(card[2])>>

\* Hand.solve(cards.map(toPokerSolverFormat)) on a 5-card hand: the solved
\* hand.
evaluateHandWithSolver(cards) ==
    SolverSolve(<<toPokerSolverFormat(cards[1]), toPokerSolverFormat(cards[2]),
                  toPokerSolverFormat(cards[3]), toPokerSolverFormat(cards[4]),
                  toPokerSolverFormat(cards[5])>>)

\* The 5-card combinations of n cards in the order of the five nested loops.
Combinations == [n \in 6..7 |-> IncSeqs(1, n, 5)]

\* evaluatedHands of findBestHand: the solved hand of each combination.
evaluatedHands(cards, combos) ==
    [k \in 1..Len(combos) |-> evaluateHandWithSolver(Pick(cards, combos[k]))]

\* A variant that takes the head of evaluatedHands without sorting.
SortedHeadUnsorted(hands) == 1

\* The index of the head of evaluatedHands.sort(...) of findBestHand: the
\* comparator puts the winner of Hand.winners([a, b]) first and the sort is
\* stable, so the head is the first hand that no other hand beats.
SortedHead(hands) ==
    CHOOSE a \in 1..Len(hands) :
        \A b \in 1..Len(hands) :
            \/ SolverWinners(hands[a], hands[b]) = 1
            \/ (SolverWinners(hands[a], hands[b]) = 0 /\ a <= b)

findBestHand(cards) ==
    IF Len(cards) <= 5
    THEN [cards |-> cards, description |-> evaluateHandWithSolver(cards).descr]
    ELSE Bind(evaluatedHands(cards, Combinations[Len(cards)]), LAMBDA hands :
             LET best == SortedHead(hands)
             IN  [cards |-> Pick(cards, Combinations[Len(cards)][best]),
                  description |-> hands[best].descr])

\* The number of pairs the loops for (i = 0; i < iEnd; i++)
\* for (j = i + 1; j < jEnd; j++) visit in their first i rows.
PairsBefore(i, jEnd) == (i * jEnd) - ((i * (i + 1)) \div 2)

\* The 1-based index pairs <<i, j>> those loops visit, in the order of the
\* visits; iEnd < jEnd.
LoopPairs(iEnd, jEnd) ==
    [k \in 1..PairsBefore(Max(iEnd, 0), jEnd) |->
        LET i == CHOOSE r \in 1..iEnd :
                     PairsBefore(r - 1, jEnd) < k /\ k <= PairsBefore(r, jEnd)
        IN  <<i, i + (k - PairsBefore(i - 1, jEnd))>>]

\* What an iteration of the loops of findTheNuts evaluates from its pair
\* alone: holeCards, result = findBestHand(allCards) and newHand, for every
\* pair in the order of the loops.
NutsCandidates(communityCards, availableCards) ==
    LET pairs == LoopPairs(Len(availableCards) - 1, Len(availableCards))
    IN  [k \in 1..Len(pairs) |->
            LET holeCards == <<availableCards[pairs[k][1]], availableCards[pairs[k][2]]>>
                result == findBestHand(communityCards \o holeCards)
            IN  [holeCards |-> holeCards, result |-> result,
                 newHand |-> evaluateHandWithSolver(result.cards)]]

\* A variant of the loop body that never replaces the first pair tried.
FindTheNutsBodyKeepingFirst(cand, st) ==
    IF st.bestHand = Null
    THEN [bestHand |-> <<cand.result>>, bestHoleCards |-> cand.holeCards,
          currentBest |-> cand.newHand]
    ELSE st

\* A variant of the loop body that replaces the tracked pair on a tie too.
FindTheNutsBodyReplacingOnTie(cand, st) ==
    IF st.bestHand = Null
    THEN [bestHand |-> <<cand.result>>, bestHoleCards |-> cand.holeCards,
          currentBest |-> cand.newHand]
    ELSE IF SolverWinners(cand.newHand, st.currentBest) /= -1
         THEN [bestHand |-> <<cand.result>>, bestHoleCards |-> cand.holeCards,
               currentBest |-> cand.newHand]
         ELSE st

\* The body of the inner loop of findTheNuts on the candidate of its pair;
\* st is [bestHand, bestHoleCards, currentBest], bestHand the empty sequence
\* while null and currentBest the solved hand of bestHand.cards, which the
\* source solves again in every iteration.
FindTheNutsBody(cand, st) ==
    IF st.bestHand = Null
    THEN [bestHand |-> <<cand.result>>, bestHoleCards |-> cand.holeCards,
          currentBest |-> cand.newHand]
    ELSE IF SolverWinners(cand.newHand, st.currentBest) = 1
         THEN [bestHand |-> <<cand.result>>, bestHoleCards |-> cand.holeCards,
               currentBest |-> cand.newHand]
         ELSE st

\* The iterations lo..hi of the loops of findTheNuts, in the order of the
\* loops.  The range is split in halves so that the evaluation stays
\* shallow, the lower half being evaluated before the upper.
RECURSIVE FindTheNutsLoop(_, _, _, _)
FindTheNutsLoop(cands, lo, hi, st) ==
    IF lo > hi THEN st
    ELSE IF lo = hi THEN FindTheNutsBody(cands[lo], st)
    ELSE Bind(FindTheNutsLoop(cands, lo, (lo + hi) \div 2, st), LAMBDA lower :
             FindTheNutsLoop(cands, ((lo + hi) \div 2) + 1, hi, lower))

\* findTheNuts(communityCards, availableCards) of the wrapper.
findTheNutsWithSolver(communityCards, availableCards) ==
    Bind(NutsCandidates(communityCards, availableCards), LAMBDA cands :
    Bind(FindTheNutsLoop(cands, 1, Len(cands),
                         [bestHand |-> Null, bestHoleCards |-> <<"", "">>,
                          currentBest |-> Null]), LAMBDA st :
        [holeCards |-> st.bestHoleCards,
         description |-> IF st.bestHand = Null THEN "High Card"
                         ELSE st.bestHand[1].description]))

-----------------------------------------------------------------------------
(* games/advanced/TheNuts.ts                                               *)

Levels == {"level1", "level2", "level3"}

\* config.rounds is 15; the model generates the first Rounds rounds.
Rounds == 2

\* The model deals from the cards of the deck whose rank is in DeckRanks.
DeckRanks == {"T", "J", "Q", "K", "A"}

levelOffset(level) ==
    CASE level = "level1" -> <<0, 0>>
      [] level = "level2" -> <<0, 1000>>
      [] OTHER -> <<0, 2000>>

\* getSeed(): getHourlySeed(levelOffset), as the 32 bits the generator keeps.
getSeed(level, hour) == Add32(hour, levelOffset(level))

strengthTargets(level) ==
    CASE level = "level1" -> <<70, 40, 10>>
      [] level = "level3" -> <<95, 92, 90>>
      [] OTHER -> <<80, 60, 40>>

\* A variant that searches the first four cards of the pool only.
findTheNutsOfWindow(communityCards, deck) ==
    findTheNutsWithSolver(communityCards, SubSeq(deck, 1, 4))

\* TheNuts.findTheNuts
findTheNuts(communityCards, deck) == findTheNutsWithSolver(communityCards, deck)

\* estimateHandStrength(description): the first substring test that the
\* lower-cased description passes.
estimateHandStrength(description) ==
    CASE description = "Straight Flush" -> 99
      [] description = "Four of a Kind" -> 95
      [] description = "Full House" -> 90
      [] description \in {"Flush", "Royal Flush"} -> 85
      [] description = "Straight" -> 80
      [] description = "Three of a Kind" -> 70
      [] description = "Two Pair" -> 60
      [] description = "Pair" -> 40
      [] OTHER -> 20

Abs(x) == IF x < 0 THEN -x ELSE x

\* array[i] for a 1-based i: the undefined of the source past the end.
At(array, i) == IF i \in 1..Len(array) THEN array[i] ELSE "undefined"

\* candidates of generateDecoyHand after its loops: one candidate per pair of
\* the first 21 available cards, in the order of the loops.
DecoyCandidates(communityCards, availableCards) ==
    LET pairs == LoopPairs(Min(Len(availableCards) - 1, 20), Min(Len(availableCards), 21))
    IN  [k \in 1..Len(pairs) |->
            LET holeCards == <<availableCards[pairs[k][1]], availableCards[pairs[k][2]]>>
                bestHand == findBestHand(communityCards \o holeCards)
            IN  [holeCards |-> holeCards, description |-> bestHand.description,
                 strength |-> estimateHandStrength(bestHand.description)]]

\* The index in candidates of candidates[0] after candidates.sort(...) by the
\* distance to the target: the sort is stable, so it is the first candidate
\* of least distance.
ClosestCandidate(candidates, targetStrength) ==
    CHOOSE a \in 1..Len(candidates) :
        \A b \in 1..Len(candidates) :
            \/ Abs(candidates[a].strength - targetStrength)
                   < Abs(candidates[b].strength - targetStrength)
            \/ /\ Abs(candidates[a].strength - targetStrength)
                      = Abs(candidates[b].strength - targetStrength)
               /\ a <= b

\* A variant that looks at the first used pair only.
usedIncludesFirstOnly(usedHoleCards, card) ==
    usedHoleCards[1][1] = card \/ usedHoleCards[1][2] = card

\* usedHoleCards.some(used => used.includes(card))
usedIncludes(usedHoleCards, card) ==
    \E u \in 1..Len(usedHoleCards) :
        usedHoleCards[u][1] = card \/ usedHoleCards[u][2] = card

generateDecoyHand(communityCards, deck, targetStrength, usedHoleCards) ==
    Bind(SelectSeq(deck, LAMBDA card : ~usedIncludes(usedHoleCards, card)),
         LAMBDA availableCards :
    Bind(DecoyCandidates(communityCards, availableCards), LAMBDA candidates :
        IF Len(candidates) > 0
        THEN LET selected == candidates[ClosestCandidate(candidates, targetStrength)]
             IN  [holeCards |-> selected.holeCards, description |-> selected.description]
        ELSE [holeCards |-> <<At(availableCards, 1), At(availableCards, 2)>>,
              description |-> "High Card"]))

\* holeCards.join(',') on card strings, as the sequence of its characters.
joinHoleCards(holeCards) == holeCards[1] \o <<",">> \o holeCards[2]

\* correctStr.split(',')
RECURSIVE splitComma(_)
splitComma(str) ==
    IF \A k \in 1..Len(str) : str[k] /= ","
    THEN <<str>>
    ELSE LET k == CHOOSE k \in 1..Len(str) :
                      str[k] = "," /\ \A m \in 1..(k - 1) : str[m] /= ","
         IN  <<SubSeq(str, 1, k - 1)>> \o splitComma(SubSeq(str, k + 1, Len(str)))

\* The loop over strengthTargets of generateLevelNScenario.
RECURSIVE AddDecoys(_, _, _, _, _)
AddDecoys(communityCards, remainingDeck, targets, t, choices) ==
    IF t > Len(targets) THEN choices
    ELSE Bind(generateDecoyHand(communityCards, remainingDeck, targets[t],
                  [c \in 1..Len(choices) |-> choices[c].holeCards]),
              LAMBDA decoy :
                  AddDecoys(communityCards, remainingDeck, targets, t + 1,
                      Append(choices, [id |-> "decoy-" \o ToString(targets[t]),
                                       holeCards |-> decoy.holeCards,
                                       handStrength |-> targets[t]])))

\* generateLevelScenario(deck) in the environment env: the scenario and the
\* environment after the call.  The three level generators differ in their
\* strength targets (and in level 1's hints, which are display text).
generateLevelScenario(level, deck, env) ==
    Bind(shuffleDeck(deck, Null, env), LAMBDA sh :
    Bind(findTheNuts(SubSeq(sh.deck, 1, 5), SubSeq(sh.deck, 6, Len(sh.deck))),
         LAMBDA nuts :
    Bind(AddDecoys(SubSeq(sh.deck, 1, 5), SubSeq(sh.deck, 6, Len(sh.deck)),
                   strengthTargets(level), 1,
                   <<[id |-> "nuts", holeCards |-> nuts.holeCards,
                      handStrength |-> 100]>>), LAMBDA choices :
    Bind(shuffleArray(choices, sh.env), LAMBDA sa :
        LET communityCards == SubSeq(sh.deck, 1, 5)
        IN  [scenario |->
                 [communityCards |->
                      [flop |-> <<communityCards[1], communityCards[2], communityCards[3]>>,
                       turn |-> communityCards[4],
                       river |-> communityCards[5]],
                  choices |-> sa.array,
                  correctAnswer |-> joinHoleCards(nuts.holeCards)],
             env |-> sa.env]))))

\* generateScenarios(): the loop from round i (0-based) on.
RECURSIVE GenerateScenariosLoop(_, _, _, _, _)
GenerateScenariosLoop(level, deck, i, list, env) ==
    IF i >= Rounds THEN [scenarios |-> list, env |-> env]
    ELSE Bind(generateLevelScenario(level, deck, env), LAMBDA g :
             GenerateScenariosLoop(level, deck, i + 1, Append(list, g.scenario), g.env))

generateScenarios(level, env) ==
    GenerateScenariosLoop(level, SelectSeq(generateDeck, LAMBDA c : c[1] \in DeckRanks),
                          0, <<>>, env)

\* checkAnswer(answer, correctAnswer)
checkAnswer(answer, correctAnswer) ==
    LET correctCards == splitComma(correctAnswer)
    IN  \/ (answer[1] = At(correctCards, 1) /\ answer[2] = At(correctCards, 2))
        \/ (answer[1] = At(correctCards, 2) /\ answer[2] = At(correctCards, 1))

\* BaseGame.initialize() of The Nuts in the environment env.
initialize(level, hour, env) ==
    Bind([env EXCEPT !.randomState = setSeed(<<getSeed(level, hour)>>)], LAMBDA seeded :
    Bind(generateScenarios(level, seeded), LAMBDA g :
        [scenarios |-> g.scenarios,
         env |-> [g.env EXCEPT !.randomState = resetRandom]]))

\* BaseGame.initialize() of The Nuts when the pokersolver script has not
\* been loaded, so that Hand is undefined: the first scenario shuffles the
\* deck, and Hand.solve, first reached from findTheNuts, throws a TypeError
\* that leaves generateScenarios and initialize.  The environment at the
\* throw.
initializeThrowing(level, hour, env) ==
    shuffleDeck(SelectSeq(generateDeck, LAMBDA c : c[1] \in DeckRanks), Null,
                [env EXCEPT !.randomState = setSeed(<<getSeed(level, hour)>>)]).env

-----------------------------------------------------------------------------
(* Each specification below drives one part of the program; the variables  *)
(* of the other parts rest at these values.                                *)

HandIdle ==
    /\ hand1 = <<>>
    /\ hand2 = <<>>
    /\ eval1 = ""
    /\ eval2 = ""
    /\ cmp = 0
    /\ compared = FALSE

ManyIdle ==
    /\ cards7 = <<>>
    /\ evalMany = ""
    /\ evaluated = FALSE
    /\ bestFive = Null
    /\ searched = FALSE

NutsIdle ==
    /\ board = <<>>
    /\ pool = <<>>
    /\ theNuts = Null
    /\ found = FALSE

GameIdle ==
    /\ currentLevel = "level1"
    /\ utcHour = <<0, 0>>
    /\ mathRandom = 0
    /\ randomState = resetRandom
    /\ pc = "idle"
    /\ scenarios = <<>>
    /\ previous = Null
    /\ resets = 0
    /\ answered = Null
    /\ accepted = FALSE

ParseIdle ==
    /\ parseInput = Null
    /\ parseWith = ""
    /\ parseResult = Null
    /\ parseThrew = FALSE

ShuffleIdle ==
    /\ shufArray = <<>>
    /\ shufSeed = Null
    /\ shufCall = ""
    /\ shufAfter = <<>>
    /\ shufResult = Null
    /\ tsBefore = Null
    /\ jsBefore = Null
    /\ tsRandom = Null
    /\ jsRandom = Null
    /\ shufMath = 0

DeckIdle ==
    /\ deckFile = ""
    /\ deckOptions = Null
    /\ deckCards = <<>>
    /\ dealtCards = <<>>
    /\ deckRandom = Null
    /\ deckMath = 0
    /\ deckOps = 0

PlayIdle ==
    /\ playLevel = ""
    /\ timeLimit = 0
    /\ state = Null
    /\ currentScenario = 0
    /\ answers = Null
    /\ buttons = "none"
    /\ pendingAdvance = FALSE
    /\ timer = Null
    /\ completedLevels = {}
    /\ marked = Null
    /\ mounted = FALSE
    /\ stored = Null
    /\ savedView = Null
    /\ restoredView = Null
    /\ navigations = 0

RouterIdle ==
    /\ rPath = ""
    /\ rModule = ""
    /\ rStorage = Null
    /\ rMounted = {}
    /\ rPending = <<>>
    /\ rRestored = Null
    /\ rFailed = FALSE
    /\ rCount = 0

StreakIdle ==
    /\ kKind = ""
    /\ kState = Null
    /\ kRun = 0
    /\ kLongest = 0

SessionIdle ==
    /\ now = 0
    /\ tmr = Null
    /\ sConfig = Null
    /\ sState = Null
    /\ sScenario = 0
    /\ sAnswers = 0
    /\ sPending = <<>>
    /\ sAwaiting = FALSE
    /\ sEndings = 0

-----------------------------------------------------------------------------
(* The game The Nuts: construction, initialize(), reset() and checkAnswer.  *)

\* Hours the game is constructed in: 2024-01-01 00:00 UTC and
\* 2025-06-15 13:00 UTC, in ms modulo 2^32.
Hours == {<<49745, 62464>>, <<29612, 58496>>}

\* Math.random starts in one of MathRandomStates hidden states, a sample of
\* the states it can be in: 7, 14, ...
MathRandomStates == 2

\* reset() is called at most MaxResets times.
MaxResets == 1

\* new TheNuts(level): nothing generated yet; the UTC hour and the state of
\* Math.random are the environment's.
Init ==
    /\ RouterIdle
    /\ StreakIdle
    /\ currentLevel \in Levels
    /\ utcHour \in Hours
    /\ mathRandom \in {7 * k : k \in 1..MathRandomStates}
    /\ randomState = resetRandom
    /\ pc = "constructed"
    /\ scenarios = <<>>
    /\ previous = Null
    /\ resets = 0
    /\ answered = Null
    /\ accepted = FALSE
    /\ HandIdle
    /\ ManyIdle
    /\ NutsIdle
    /\ ParseIdle
    /\ ShuffleIdle
    /\ DeckIdle
    /\ PlayIdle
    /\ SessionIdle

\* initialize() on the constructed game.
Initialize ==
    /\ pc = "constructed"
    /\ \E r \in {initialize(currentLevel, utcHour,
                    [randomState |-> randomState, mathRandom |-> mathRandom])} :
          /\ scenarios' = r.scenarios
          /\ randomState' = r.env.randomState
          /\ mathRandom' = r.env.mathRandom
    /\ pc' = "initialized"
    /\ UNCHANGED <<currentLevel, utcHour, previous, resets, answered, accepted>>
    /\ UNCHANGED <<handVars, manyVars, nutsVars, parseVars, shuffleVars, deckVars, playVars, sessionVars, routerVars, streakVars>>

\* initialize() on the constructed game in a page without the pokersolver
\* script: generateScenarios throws.
InitializeThrows ==
    /\ pc = "constructed"
    /\ \E env \in {initializeThrowing(currentLevel, utcHour,
                      [randomState |-> randomState, mathRandom |-> mathRandom])} :
          /\ randomState' = env.randomState
          /\ mathRandom' = env.mathRandom
    /\ pc' = "failed"
    /\ UNCHANGED <<currentLevel, utcHour, scenarios, previous, resets, answered, accepted>>
    /\ UNCHANGED <<handVars, manyVars, nutsVars, parseVars, shuffleVars, deckVars, playVars, sessionVars, routerVars, streakVars>>

\* reset(): the scenarios are dropped and initialize() generates new ones.
\* reset() overwrites what checkAnswer left behind, so from a state with an
\* answer it leads to the state it leads to from the state before the answer;
\* it is taken from the latter.
Reset ==
    /\ pc = "initialized"
    /\ answered = Null
    /\ resets < MaxResets
    /\ previous' = <<scenarios>>
    /\ \E r \in {initialize(currentLevel, utcHour,
                    [randomState |-> randomState, mathRandom |-> mathRandom])} :
          /\ scenarios' = r.scenarios
          /\ randomState' = r.env.randomState
          /\ mathRandom' = r.env.mathRandom
    /\ resets' = resets + 1
    /\ answered' = Null
    /\ accepted' = FALSE
    /\ UNCHANGED <<currentLevel, utcHour, pc>>
    /\ UNCHANGED <<handVars, manyVars, nutsVars, parseVars, shuffleVars, deckVars, playVars, sessionVars, routerVars, streakVars>>

\* checkAnswer(choice.value, scenario.correctAnswer) for a choice of a round.
CheckAnswer ==
    /\ pc = "initialized"
    /\ \E r \in 1..Len(scenarios) :
         \E c \in 1..Len(scenarios[r].choices) :
            /\ answered' = <<r, c>>
            /\ accepted' = checkAnswer(scenarios[r].choices[c].holeCards,
                                       scenarios[r].correctAnswer)
    /\ UNCHANGED <<currentLevel, utcHour, mathRandom, randomState, pc, scenarios,
                   previous, resets>>
    /\ UNCHANGED <<handVars, manyVars, nutsVars, parseVars, shuffleVars, deckVars, playVars, sessionVars, routerVars, streakVars>>

Next == Initialize \/ InitializeThrows \/ Reset \/ CheckAnswer

Spec == Init /\ [][Next]_vars

\* The strength of the best 5-card hand of 6 or 7 cards: the greatest
\* strength among its 5-card subsets.
BestStrength(cards) ==
    LET combos == Combinations[Len(cards)]
        strengths == {SolverStrength(Pick(cards, combos[k])) : k \in 1..Len(combos)}
    IN  CHOOSE s \in strengths : \A u \in strengths : u <= s

\* The board of a scenario as one sequence.
BoardOf(scenario) ==
    scenario.communityCards.flop
        \o <<scenario.communityCards.turn, scenario.communityCards.river>>

\* The cards of the deck dealt from that are not on the board of a scenario.
PoolOf(scenario) ==
    SelectSeq(generateDeck,
        LAMBDA c : c[1] \in DeckRanks /\ c \notin Range(BoardOf(scenario)))

\* The strength a hole-card pair makes with the board of a scenario.
StrengthWith(scenario, holeCards) == BestStrength(BoardOf(scenario) \o holeCards)

\* The two cards correctAnswer names.
CorrectCards(scenario) == splitComma(scenario.correctAnswer)

Decoys(scenario) ==
    {c \in 1..Len(scenario.choices) : scenario.choices[c].id /= "nuts"}

\* C15: whenever initialize() has finished, by returning or by an exception
\* of generateScenarios, the process-wide generator is the non-deterministic
\* source again.
C15_GeneratorResetAfterInitialize ==
    pc \in {"initialized", "failed"} => randomState = resetRandom

\* C1: two runs of the scenario generation under the same seed (same hour,
\* same level) produce the same scenario list: same boards, same choices,
\* same choice order.
C1_SameSeedSameScenarios ==
    (pc = "initialized" /\ previous /= Null) => scenarios = previous[1]

\* C3: in every generated scenario correctAnswer names a pair of cards of the
\* remaining pool that no pair of the whole remaining pool beats.
C3_CorrectAnswerIsGlobalNuts ==
    (pc = "initialized" /\ answered = Null) =>
        \A r \in 1..Len(scenarios) :
            LET sc == scenarios[r]
                remaining == PoolOf(sc)
                correct == CorrectCards(sc)
                best == StrengthWith(sc, correct)
            IN  /\ Len(correct) = 2
                /\ correct[1] /= correct[2]
                /\ correct[1] \in Range(remaining)
                /\ correct[2] \in Range(remaining)
                /\ \A i \in 1..Len(remaining) : \A j \in (i + 1)..Len(remaining) :
                       StrengthWith(sc, <<remaining[i], remaining[j]>>) <= best

\* A generated scenario whose correct answer is strictly stronger than every
\* pair of the four cards that follow the board in the deck dealt from, and
\* than every offered decoy.
C3_Witness ==
    /\ pc = "initialized"
    /\ answered = Null
    /\ \E r \in 1..Len(scenarios) :
          LET sc == scenarios[r]
              remaining == PoolOf(sc)
              best == StrengthWith(sc, CorrectCards(sc))
          IN  /\ \A i \in 1..4 : \A j \in (i + 1)..4 :
                     StrengthWith(sc, <<remaining[i], remaining[j]>>) < best
              /\ \A c \in Decoys(sc) : StrengthWith(sc, sc.choices[c].holeCards) < best

\* The cards a scenario shows: its board and the hole cards of its choices.
ShownCards(scenario) ==
    Range(BoardOf(scenario))
        \cup UNION {Range(scenario.choices[c].holeCards) : c \in 1..Len(scenario.choices)}

\* C4: the 5 board cards and the 8 hole cards of the 4 choices of a generated
\* scenario are 13 pairwise distinct cards, in every level.
C4_ThirteenDistinctCards ==
    pc = "initialized" =>
        \A r \in 1..Len(scenarios) :
            /\ Len(scenarios[r].choices) = 4
            /\ Cardinality(ShownCards(scenarios[r])) = 13

\* All rounds of a level 3 game generated, after a reset too.
C4_Witness ==
    /\ pc = "initialized"
    /\ currentLevel = "level3"
    /\ resets = MaxResets
    /\ Len(scenarios) = Rounds
    /\ \A r \in 1..Len(scenarios) : Cardinality(Decoys(scenarios[r])) = 3

\* C5: every decoy of a generated scenario makes a strictly weaker hand with
\* the board than the nuts, and a choice checkAnswer accepts is strictly
\* stronger than every other choice of its scenario.
C5_DecoysAreWeaker ==
    pc = "initialized" =>
        /\ \A r \in 1..Len(scenarios) :
              \A c \in Decoys(scenarios[r]) :
                  StrengthWith(scenarios[r], scenarios[r].choices[c].holeCards)
                      < StrengthWith(scenarios[r], CorrectCards(scenarios[r]))
        /\ (answered /= Null /\ accepted) =>
              LET sc == scenarios[answered[1]]
              IN  \A c \in 1..Len(sc.choices) :
                      c /= answered[2] =>
                          StrengthWith(sc, sc.choices[c].holeCards)
                              < StrengthWith(sc, sc.choices[answered[2]].holeCards)

-----------------------------------------------------------------------------
(* Comparison harness: compareHands applied to two 5-card hands.           *)

\* The deck the first hand is drawn from: the hearts of ranks A and
\* 2..MaxHeartRank, and the ranks A, 2, 3 of the other three suits.
MaxHeartRank == 6
SideRanks == {"A", "2", "3"}

HandDeck ==
    SelectSeq(generateDeck,
        LAMBDA c : IF c[2] = "h"
                   THEN c[1] = "A" \/ getRankValue(c[1]) <= MaxHeartRank
                   ELSE c[1] \in SideRanks)

\* The cards of seq at the index set S, in the order of seq.
SubSeqAt(seq, S) == SelectSeq(seq, LAMBDA c : \E i \in S : seq[i] = c)

\* All hands of n cards of the deck, each in deck order.
HandsOf(deck, n) ==
    {SubSeqAt(deck, S) : S \in {T \in SUBSET (1..Len(deck)) : Cardinality(T) = n}}

\* Fixed second hands, extreme ones of every category, from the full deck.
Fixtures ==
    { << <<"7","h">>, <<"5","d">>, <<"4","c">>, <<"3","s">>, <<"2","h">> >>,
      << <<"A","s">>, <<"K","d">>, <<"Q","c">>, <<"J","s">>, <<"9","h">> >>,
      << <<"2","s">>, <<"2","d">>, <<"5","c">>, <<"4","s">>, <<"3","h">> >>,
      << <<"A","s">>, <<"A","d">>, <<"K","c">>, <<"Q","s">>, <<"J","h">> >>,
      << <<"3","s">>, <<"3","d">>, <<"2","c">>, <<"2","s">>, <<"4","h">> >>,
      << <<"2","s">>, <<"2","d">>, <<"2","c">>, <<"4","s">>, <<"3","h">> >>,
      << <<"A","s">>, <<"2","d">>, <<"3","c">>, <<"4","s">>, <<"5","h">> >>,
      << <<"6","s">>, <<"2","d">>, <<"3","c">>, <<"4","s">>, <<"5","h">> >>,
      << <<"A","s">>, <<"K","d">>, <<"Q","c">>, <<"J","s">>, <<"T","h">> >>,
      << <<"7","s">>, <<"5","s">>, <<"4","s">>, <<"3","s">>, <<"2","s">> >>,
      << <<"A","s">>, <<"K","s">>, <<"Q","s">>, <<"J","s">>, <<"9","s">> >>,
      << <<"2","s">>, <<"2","d">>, <<"2","c">>, <<"3","s">>, <<"3","h">> >>,
      << <<"2","s">>, <<"2","d">>, <<"2","c">>, <<"2","h">>, <<"3","h">> >>,
      << <<"A","s">>, <<"A","d">>, <<"A","c">>, <<"A","h">>, <<"K","h">> >>,
      << <<"A","s">>, <<"2","s">>, <<"3","s">>, <<"4","s">>, <<"5","s">> >>,
      << <<"9","s">>, <<"8","s">>, <<"7","s">>, <<"6","s">>, <<"5","s">> >>,
      << <<"A","s">>, <<"K","s">>, <<"Q","s">>, <<"J","s">>, <<"T","s">> >> }

CompareInit ==
    /\ RouterIdle
    /\ StreakIdle
    /\ hand1 \in HandsOf(HandDeck, 5)
    /\ hand2 \in Fixtures
    /\ eval1 = ""
    /\ eval2 = ""
    /\ cmp = 0
    /\ compared = FALSE
    /\ ManyIdle
    /\ NutsIdle
    /\ GameIdle
    /\ ParseIdle
    /\ ShuffleIdle
    /\ DeckIdle
    /\ PlayIdle
    /\ SessionIdle

\* One call compareHands(hand1, hand2).
CompareHands ==
    /\ ~compared
    /\ eval1' = evaluateHand(hand1).name
    /\ eval2' = evaluateHand(hand2).name
    /\ cmp' = compareHands(hand1, hand2)
    /\ compared' = TRUE
    /\ UNCHANGED <<hand1, hand2>>
    /\ UNCHANGED <<manyVars, nutsVars, gameVars, parseVars, shuffleVars, deckVars, playVars, sessionVars, routerVars, streakVars>>

CompareNext == CompareHands

CompareSpec == CompareInit /\ [][CompareNext]_vars

Sign(x) == IF x > 0 THEN 1 ELSE IF x < 0 THEN -1 ELSE 0

\* The rank values of a 5-card hand.
RankSet(cards) == {getRankValue(cards[i][1]) : i \in 1..Len(cards)}
OneSuit(cards) == \A i \in 1..Len(cards) : cards[i][2] = cards[1][2]

\* C6: for two 5-card hands of different categories, compareHands declares
\* the hand of the higher category the winner, whatever the ranks.
C6_CategoryOrderWins ==
    (compared /\ SolverCategory(hand1) /= SolverCategory(hand2))
        => Sign(cmp) = Sign(SolverCategory(hand1) - SolverCategory(hand2))

\* A pair of twos has beaten an ace-high High Card hand.
C6_Witness ==
    /\ compared
    /\ SolverCategory(hand1) = 2
    /\ 14 \notin RankSet(hand1)
    /\ SolverCategory(hand2) = 1
    /\ 14 \in RankSet(hand2)
    /\ cmp > 0

\* The tiebreak sequence the claim names: the ranks by multiplicity and then
\* by rank, descending (for straights the full descending rank sequence).
ClaimTiebreak(cards) == ByCountThenValue(SolverValues(cards))

ClaimStrength(cards) ==
    LET t == ClaimTiebreak(cards)
    IN  ((((SolverCategory(cards) * 15 + t[1]) * 15 + t[2]) * 15 + t[3]) * 15
            + t[4]) * 15 + t[5]

\* C7: compareHands orders by category and then lexicographically by the
\* tiebreak rank sequence; it reports a tie exactly for the same category and
\* the same tiebreak sequence, whatever the suits.
C7_TieIffSameTiebreak ==
    compared => Sign(cmp) = Sign(ClaimStrength(hand1) - ClaimStrength(hand2))

\* C8: a mixed-suit A-2-3-4-5 is a Straight, never High Card, and loses to
\* every straight whose high card is 6 or more.
C8_WheelIsLowestStraight ==
    (compared /\ RankSet(hand1) = {14, 2, 3, 4, 5} /\ ~OneSuit(hand1))
        => /\ eval1 = "Straight"
           /\ (SolverCategory(hand2) = 5 /\ RankSet(hand2) /= {14, 2, 3, 4, 5})
                  => cmp < 0

\* C9: Royal Flush is the name of T-J-Q-K-A of one suit only; every other
\* straight flush, A-2-3-4-5 of one suit included, is named Straight Flush.
C9_RoyalOnlyAceHigh ==
    compared =>
        /\ eval1 = "Royal Flush"
              <=> (OneSuit(hand1) /\ RankSet(hand1) = {10, 11, 12, 13, 14})
        /\ (SolverCategory(hand1) = 9 /\ RankSet(hand1) /= {10, 11, 12, 13, 14})
              => eval1 = "Straight Flush"

-----------------------------------------------------------------------------
(* Nuts finder harness: findTheNuts of the wrapper applied to a board and  *)
(* a pool.                                                                 *)

\* Boards are five of the first six cards of NutsDeck; pools are drawn from
\* the other cards.
NutsDeck ==
    << <<"A","h">>, <<"K","h">>, <<"Q","h">>, <<"J","h">>, <<"9","h">>, <<"9","s">>,
       <<"T","h">>, <<"A","s">>, <<"K","s">>, <<"A","d">>, <<"9","d">> >>

\* A pool has 0..MaxPoolSize cards.
MaxPoolSize == 3

Reverse(seq) == [i \in 1..Len(seq) |-> seq[Len(seq) + 1 - i]]

NutsBoards == HandsOf(SubSeq(NutsDeck, 1, 6), 5)

\* The pools for a board: 0..MaxPoolSize of the cards off the board, in deck
\* order or in reverse deck order.
NutsPools(b) ==
    LET rest == SelectSeq(NutsDeck, LAMBDA c : c \notin Range(b))
        inOrder == UNION {HandsOf(rest, n) : n \in 0..MaxPoolSize}
    IN  inOrder \cup {Reverse(p) : p \in inOrder}

NutsInit ==
    /\ RouterIdle
    /\ StreakIdle
    /\ board \in NutsBoards
    /\ pool \in NutsPools(board)
    /\ theNuts = Null
    /\ found = FALSE
    /\ HandIdle
    /\ ManyIdle
    /\ GameIdle
    /\ ParseIdle
    /\ ShuffleIdle
    /\ DeckIdle
    /\ PlayIdle
    /\ SessionIdle

\* One call findTheNuts(board, pool).
FindTheNuts ==
    /\ ~found
    /\ theNuts' = findTheNutsWithSolver(board, pool)
    /\ found' = TRUE
    /\ UNCHANGED <<board, pool>>
    /\ UNCHANGED <<handVars, manyVars, gameVars, parseVars, shuffleVars, deckVars, playVars, sessionVars, routerVars, streakVars>>

NutsNext == FindTheNuts

NutsSpec == NutsInit /\ [][NutsNext]_vars

\* C2: for a pool of at least 2 cards findTheNuts(B, P) returns two distinct
\* cards of the pool whose best hand with the board is not beaten by the best
\* hand any other pair of pool cards makes with the board.
C2_NutsIsUnbeaten ==
    (found /\ Len(pool) >= 2) =>
        /\ theNuts.holeCards[1] \in Range(pool)
        /\ theNuts.holeCards[2] \in Range(pool)
        /\ theNuts.holeCards[1] /= theNuts.holeCards[2]
        /\ \A i \in 1..Len(pool) : \A j \in (i + 1)..Len(pool) :
               BestStrength(board \o <<pool[i], pool[j]>>)
                   <= BestStrength(board \o theNuts.holeCards)

\* The search has passed over the first pair of a pool of three or more for
\* a strictly stronger pair found later.
C2_Witness ==
    /\ found
    /\ Len(pool) >= 3
    /\ theNuts.holeCards /= <<pool[1], pool[2]>>
    /\ BestStrength(board \o <<pool[1], pool[2]>>)
           < BestStrength(board \o theNuts.holeCards)

\* The pairs <<i, j>>, i < j, of indices of the pool in the order in which
\* the loops of findTheNuts try them.
PoolPairs == {<<i, j>> \in (1..Len(pool)) \X (1..Len(pool)) : i < j}
TriedBefore(p, q) == p[1] < q[1] \/ (p[1] = q[1] /\ p[2] < q[2])
PairStrength(p) == BestStrength(board \o <<pool[p[1]], pool[p[2]]>>)

\* C12: findTheNuts replaces the pair it tracks only for a strictly stronger
\* one: it returns the first pair, in the order i < j over the pool, among the
\* pairs of greatest strength, so the board and the pool order determine it.
C12_FirstOfTheStrongestPairs ==
    (found /\ Len(pool) >= 2) =>
        \E p \in PoolPairs :
            /\ theNuts.holeCards = <<pool[p[1]], pool[p[2]]>>
            /\ \A q \in PoolPairs :
                   /\ PairStrength(q) <= PairStrength(p)
                   /\ TriedBefore(q, p) => PairStrength(q) < PairStrength(p)

\* The search has returned a pair that a pair tried later equals in strength.
C12_Witness ==
    /\ found
    /\ Len(pool) >= 3
    /\ \E p \in PoolPairs :
          /\ theNuts.holeCards = <<pool[p[1]], pool[p[2]]>>
          /\ \E q \in PoolPairs :
                 TriedBefore(p, q) /\ PairStrength(q) = PairStrength(p)

\* C13: findTheNuts called with a pool of fewer than 2 cards fails with an
\* error: such a call never returns a result.
C13_ShortPoolNeverReturns ==
    Len(pool) < 2 => ~found

-----------------------------------------------------------------------------
(* Evaluation harness: evaluateHand of poker.ts and findBestHand of the     *)
(* wrapper applied to 6 or 7 cards.                                        *)

ManyInit ==
    /\ RouterIdle
    /\ StreakIdle
    /\ cards7 \in HandsOf(HandDeck, 6) \cup HandsOf(HandDeck, 7)
    /\ evalMany = ""
    /\ evaluated = FALSE
    /\ bestFive = Null
    /\ searched = FALSE
    /\ HandIdle
    /\ NutsIdle
    /\ GameIdle
    /\ ParseIdle
    /\ ShuffleIdle
    /\ DeckIdle
    /\ PlayIdle
    /\ SessionIdle

\* One call evaluateHand(cards7).
EvaluateMany ==
    /\ ~evaluated
    /\ evalMany' = evaluateHand(cards7).name
    /\ evaluated' = TRUE
    /\ UNCHANGED <<cards7, bestFive, searched>>
    /\ UNCHANGED <<handVars, nutsVars, gameVars, parseVars, shuffleVars, deckVars, playVars, sessionVars, routerVars, streakVars>>

\* One call findBestHand(cards7).
FindBestHand ==
    /\ ~searched
    /\ bestFive' = findBestHand(cards7)
    /\ searched' = TRUE
    /\ UNCHANGED <<cards7, evalMany, evaluated>>
    /\ UNCHANGED <<handVars, nutsVars, gameVars, parseVars, shuffleVars, deckVars, playVars, sessionVars, routerVars, streakVars>>

ManyNext == EvaluateMany \/ FindBestHand

ManySpec == ManyInit /\ [][ManyNext]_vars

\* C10: on 6 or 7 cards evaluateHand names the category of the best 5-card
\* subset found by exhaustive search.
C10_EvaluateIsBestFive ==
    evaluated => evalMany = evaluateHand(findBestHand(cards7).cards).name

\* C11: on 6 or 7 cards findBestHand examines every five-card subset, each
\* exactly once (6 or 21 combinations), and returns one of them that no
\* five-card subset beats under the comparator of the solver.
C11_BestHandSearchIsExhaustive ==
    searched =>
        LET n == Len(cards7)
            combos == Combinations[n]
        IN  /\ Len(combos) = (IF n = 6 THEN 6 ELSE 21)
            /\ {Range(combos[k]) : k \in 1..Len(combos)}
                   = {S \in SUBSET (1..n) : Cardinality(S) = 5}
            /\ \A k \in 1..Len(combos) : Cardinality(Range(combos[k])) = 5
            /\ \E k \in 1..Len(combos) : bestFive.cards = Pick(cards7, combos[k])
            /\ \A h \in HandsOf(cards7, 5) :
                   SolverWinners(evaluateHandWithSolver(h),
                                 evaluateHandWithSolver(bestFive.cards)) /= 1

\* A search of 7 cards has returned a hand that is not the first combination
\* and strictly beats it.
C11_Witness ==
    /\ searched
    /\ Len(cards7) = 7
    /\ bestFive.cards /= SubSeq(cards7, 1, 5)
    /\ SolverWinners(evaluateHandWithSolver(bestFive.cards),
                     evaluateHandWithSolver(SubSeq(cards7, 1, 5))) = 1

-----------------------------------------------------------------------------
(* Parse harness: parseCard of cards.ts and of cards.js applied to one      *)
(* argument.                                                               *)

\* The characters strings are made of, and their greatest length.
TokenChars == {"1", "0", "2", "9", "T", "t", "A", "k", "h", "S", "x"}
MaxTokenLen == 3

ParseStrings ==
    {[type |-> "string", isNull |-> FALSE, text |-> s, rank |-> Undefined,
      suit |-> Undefined] :
         s \in UNION {[1..n -> TokenChars] : n \in 0..MaxTokenLen}}

\* The rank and suit properties of the objects: present and valid, present
\* and not a rank or a suit, empty, and absent.
ObjectRanks == {<<"A">>, <<"a">>, <<"T">>, <<"1", "0">>, <<"2">>, <<"1">>, <<"Z">>,
                <<>>, Undefined}
ObjectSuits == {<<"h">>, <<"H">>, <<"s">>, <<"h","e","a","r","t","s">>, <<"u2665">>,
                <<"x">>, <<>>, Undefined}

ParseObjects ==
    {[type |-> "object", isNull |-> FALSE, text |-> <<>>, rank |-> r, suit |-> s] :
         r \in ObjectRanks, s \in ObjectSuits}
    \cup {[type |-> "object", isNull |-> TRUE, text |-> <<>>, rank |-> Undefined,
           suit |-> Undefined],
          [type |-> "number", isNull |-> FALSE, text |-> <<>>, rank |-> Undefined,
           suit |-> Undefined],
          [type |-> "undefined", isNull |-> FALSE, text |-> <<>>, rank |-> Undefined,
           suit |-> Undefined]}

ParseInit ==
    /\ RouterIdle
    /\ StreakIdle
    /\ parseInput \in ParseStrings \cup ParseObjects
    /\ parseWith = ""
    /\ parseResult = Null
    /\ parseThrew = FALSE
    /\ HandIdle
    /\ ManyIdle
    /\ NutsIdle
    /\ GameIdle
    /\ ShuffleIdle
    /\ DeckIdle
    /\ PlayIdle
    /\ SessionIdle

\* One call parseCard(parseInput) of cards.ts.
ParseCardTs ==
    /\ parseWith = ""
    /\ parseWith' = "cards.ts"
    /\ \E r \in {parseCardOutcome(parseInput)} :
          /\ parseThrew' = r.threw
          /\ parseResult' = IF r.threw THEN Null ELSE <<[rank |-> r.rank, suit |-> r.suit]>>
    /\ UNCHANGED parseInput
    /\ UNCHANGED <<handVars, manyVars, nutsVars, gameVars, shuffleVars, deckVars, playVars, sessionVars, routerVars, streakVars>>

\* One call parseCard(parseInput) of cards.js.
ParseCardJs ==
    /\ parseWith = ""
    /\ parseWith' = "cards.js"
    /\ \E r \in {parseCardJsOutcome(parseInput)} :
          /\ parseThrew' = r.threw
          /\ parseResult' = IF r.threw THEN Null ELSE <<[rank |-> r.rank, suit |-> r.suit]>>
    /\ UNCHANGED parseInput
    /\ UNCHANGED <<handVars, manyVars, nutsVars, gameVars, shuffleVars, deckVars, playVars, sessionVars, routerVars, streakVars>>

ParseNext == ParseCardTs \/ ParseCardJs

ParseSpec == ParseInit /\ [][ParseNext]_vars

\* The strings the claim lets parse: a rank 2-9, T, J, Q, K, A or "10" and a
\* suit h, d, c, s, in either case.
RankTokens ==
    {<<r>> : r \in {"2", "3", "4", "5", "6", "7", "8", "9", "T", "J", "Q", "K", "A",
                     "t", "j", "q", "k", "a"}} \cup {<<"1", "0">>}
SuitTokens == {<<s>> : s \in {"h", "d", "c", "s", "H", "D", "C", "S"}}
CardTokens == {r \o s : r \in RankTokens, s \in SuitTokens}

\* C14: parseCard returns exactly for the card tokens among the strings, with
\* "10" turned into "T", the rank in upper and the suit in lower case; it
\* throws on every other argument, so a card it returns has one of the 13
\* ranks and one of the 4 suits.
C14_ParseReturnsOnlyCards ==
    parseWith /= "" =>
        /\ parseInput.type = "string" => (~parseThrew <=> parseInput.text \in CardTokens)
        /\ ~parseThrew =>
               /\ parseResult[1].rank \in {<<r>> : r \in Range(RANKS)}
               /\ parseResult[1].suit \in {<<s>> : s \in Range(SUITS)}
               /\ parseInput.type = "string" =>
                      /\ parseResult[1].suit
                             = lowerCase(<<parseInput.text[Len(parseInput.text)]>>)
                      /\ parseResult[1].rank
                             = (IF Len(parseInput.text) = 3 THEN <<"T">>
                                ELSE upperCase(<<parseInput.text[1]>>))

-----------------------------------------------------------------------------
(* Shuffle harness: one call of a shuffling function of random.ts, of      *)
(* cards.ts or of cards.js, on an array and with a seed, made while the    *)
(* generator of random.ts and the generator of cards.js are each either    *)
(* unseeded or in the middle of a seeded stream.                           *)

\* Longest array given to a call.
MaxArrayLen == 3

ShuffleElems == {"a", "b", "c"}
ShuffleArrays == UNION {[1..n -> ShuffleElems] : n \in 0..MaxArrayLen}

\* The seeds given to a call.
Seeds == {42, 0 - 100}

\* The states of a process-wide generator before the call: unseeded, or
\* seeded by an enclosing build (here with the seed 7) and not yet drawn from.
GeneratorStates == {resetRandom, setSeed(<<Word(7)>>)}

ShuffleInit ==
    /\ RouterIdle
    /\ StreakIdle
    /\ shufArray \in ShuffleArrays
    /\ shufSeed \in {Null} \cup {<<s>> : s \in Seeds}
    /\ shufCall = ""
    /\ shufAfter = shufArray
    /\ shufResult = Null
    /\ tsBefore \in GeneratorStates
    /\ jsBefore \in GeneratorStates
    /\ tsRandom = tsBefore
    /\ jsRandom = jsBefore
    /\ shufMath = 1
    /\ HandIdle
    /\ ManyIdle
    /\ NutsIdle
    /\ GameIdle
    /\ ParseIdle
    /\ DeckIdle
    /\ PlayIdle
    /\ SessionIdle

\* The environment a call of random.ts or of cards.ts runs in.
TsEnv == [randomState |-> tsRandom, mathRandom |-> shufMath]

\* The environment a call of cards.js runs in.
JsEnv == [randomState |-> jsRandom, mathRandom |-> shufMath]

\* The seed as the number mulberry32 is given.
SeedWord(seed) == IF seed = Null THEN Null ELSE <<Word(seed[1])>>

\* shuffleArray(shufArray) of random.ts.
CallShuffleArray ==
    /\ shufCall = ""
    /\ shufCall' = "shuffleArray"
    /\ \E r \in {shuffleArray(shufArray, TsEnv)} :
          /\ shufResult' = r.array
          /\ tsRandom' = r.env.randomState
          /\ shufMath' = r.env.mathRandom
    /\ UNCHANGED <<shufArray, shufSeed, shufAfter, tsBefore, jsBefore, jsRandom>>
    /\ UNCHANGED <<handVars, manyVars, nutsVars, gameVars, parseVars, deckVars, playVars, sessionVars, routerVars, streakVars>>

\* createSeededRandom(shufSeed).shuffle(shufArray) of random.ts.
CallSeededShuffle ==
    /\ shufCall = ""
    /\ shufSeed /= Null
    /\ shufCall' = "createSeededRandom.shuffle"
    /\ \E r \in {seededShuffle(shufArray, SeedWord(shufSeed), TsEnv)} :
          /\ shufResult' = r.array
          /\ tsRandom' = r.env.randomState
          /\ shufMath' = r.env.mathRandom
    /\ UNCHANGED <<shufArray, shufSeed, shufAfter, tsBefore, jsBefore, jsRandom>>
    /\ UNCHANGED <<handVars, manyVars, nutsVars, gameVars, parseVars, deckVars, playVars, sessionVars, routerVars, streakVars>>

\* shuffleDeck(shufArray, shufSeed) of cards.ts.
CallShuffleDeck ==
    /\ shufCall = ""
    /\ shufCall' = "shuffleDeck"
    /\ \E r \in {shuffleDeck(shufArray, shufSeed, TsEnv)} :
          /\ shufResult' = r.deck
          /\ tsRandom' = r.env.randomState
          /\ shufMath' = r.env.mathRandom
    /\ UNCHANGED <<shufArray, shufSeed, shufAfter, tsBefore, jsBefore, jsRandom>>
    /\ UNCHANGED <<handVars, manyVars, nutsVars, gameVars, parseVars, deckVars, playVars, sessionVars, routerVars, streakVars>>

\* generateDeck({shuffled: true, seed: shufSeed}) of cards.ts; it takes no
\* array.
CallGenerateDeck ==
    /\ shufCall = ""
    /\ shufArray = <<>>
    /\ shufCall' = "generateDeck"
    /\ \E r \in {generateDeckWith(TRUE, shufSeed, TsEnv)} :
          /\ shufResult' = r.deck
          /\ tsRandom' = r.env.randomState
          /\ shufMath' = r.env.mathRandom
    /\ UNCHANGED <<shufArray, shufSeed, shufAfter, tsBefore, jsBefore, jsRandom>>
    /\ UNCHANGED <<handVars, manyVars, nutsVars, gameVars, parseVars, deckVars, playVars, sessionVars, routerVars, streakVars>>

\* shuffleArray(shufArray) of cards.js: the array returned is the array given.
CallShuffleArrayJs ==
    /\ shufCall = ""
    /\ shufCall' = "cards.js shuffleArray"
    /\ \E r \in {shuffleArrayJs(shufArray, JsEnv)} :
          /\ shufResult' = r.array
          /\ shufAfter' = r.array
          /\ jsRandom' = r.env.randomState
          /\ shufMath' = r.env.mathRandom
    /\ UNCHANGED <<shufArray, shufSeed, tsBefore, jsBefore, tsRandom>>
    /\ UNCHANGED <<handVars, manyVars, nutsVars, gameVars, parseVars, deckVars, playVars, sessionVars, routerVars, streakVars>>

\* shuffleDeck(shufArray, shufSeed) of cards.js.
CallShuffleDeckJs ==
    /\ shufCall = ""
    /\ shufCall' = "cards.js shuffleDeck"
    /\ \E r \in {shuffleDeckJs(shufArray, SeedWord(shufSeed), JsEnv)} :
          /\ shufResult' = r.deck
          /\ jsRandom' = r.env.randomState
          /\ shufMath' = r.env.mathRandom
    /\ UNCHANGED <<shufArray, shufSeed, shufAfter, tsBefore, jsBefore, tsRandom>>
    /\ UNCHANGED <<handVars, manyVars, nutsVars, gameVars, parseVars, deckVars, playVars, sessionVars, routerVars, streakVars>>

\* generateDeck({shuffled: true, seed: shufSeed}) of cards.js.
CallGenerateDeckJs ==
    /\ shufCall = ""
    /\ shufArray = <<>>
    /\ shufCall' = "cards.js generateDeck"
    /\ \E r \in {generateDeckJs(TRUE, SeedWord(shufSeed), JsEnv)} :
          /\ shufResult' = r.deck
          /\ jsRandom' = r.env.randomState
          /\ shufMath' = r.env.mathRandom
    /\ UNCHANGED <<shufArray, shufSeed, shufAfter, tsBefore, jsBefore, tsRandom>>
    /\ UNCHANGED <<handVars, manyVars, nutsVars, gameVars, parseVars, deckVars, playVars, sessionVars, routerVars, streakVars>>

ShuffleNext ==
    \/ CallShuffleArray
    \/ CallSeededShuffle
    \/ CallShuffleDeck
    \/ CallGenerateDeck
    \/ CallShuffleArrayJs
    \/ CallShuffleDeckJs
    \/ CallGenerateDeckJs

ShuffleSpec == ShuffleInit /\ [][ShuffleNext]_vars

\* The number of positions of the sequence s that hold x.
Count(s, x) == Cardinality({k \in 1..Len(s) : s[k] = x})

\* s is a permutation of u: every element as often in s as in u.
IsPermutation(s, u) ==
    /\ Len(s) = Len(u)
    /\ \A x \in Range(s) \cup Range(u) : Count(s, x) = Count(u, x)

\* The calls that are given a seed of their own.
PrivatelySeededCalls ==
    {"createSeededRandom.shuffle", "shuffleDeck", "generateDeck",
     "cards.js shuffleDeck", "cards.js generateDeck"}

\* C16: after a call that was given an explicit seed (a shuffle of
\* createSeededRandom(seed), shuffleDeck or generateDeck with a seed), the
\* process-wide generator of random.ts and the one of cards.js are each in
\* the state they had before the call.
C16_PrivateSeedLeavesGeneratorAlone ==
    (shufCall \in PrivatelySeededCalls /\ shufSeed /= Null) =>
        (tsRandom = tsBefore /\ jsRandom = jsBefore)

\* The calls named shuffle: shuffleArray of random.ts and of cards.js and
\* the shuffle of createSeededRandom.
ShuffleCalls == {"shuffleArray", "cards.js shuffleArray", "createSeededRandom.shuffle"}

\* C17: the array a shuffle returns is a permutation of the array it was
\* given, and the array it was given is after the call what it was before.
C17_ShuffleIsPermutationOfUntouchedInput ==
    shufCall \in ShuffleCalls =>
        (IsPermutation(shufResult, shufArray) /\ shufAfter = shufArray)

-----------------------------------------------------------------------------
(* Deck harness: a Deck of cards.ts or of cards.js after its construction, *)
(* and the calls reset(), shuffle(seed) and deal(count) on it.             *)

\* Most calls made on a deck.
MaxDeckOps == 3

\* The seeds given to the constructor and to shuffle.
DeckSeeds == {Null} \cup {<<s>> : s \in Seeds}

\* The counts given to deal: one card, a few, more than the deck holds.
DealCounts == {1, 5, 60}

\* The environment a method of the deck runs in.
DeckEnv == [randomState |-> deckRandom, mathRandom |-> deckMath]

\* new Deck(options) in the file f: the deck and the environment after
\* reset().
NewDeck(f, options, env) ==
    IF f = "cards.ts" THEN DeckReset(options, env)
    ELSE DeckResetJs([options EXCEPT !.seed = SeedWord(options.seed)], env)

DeckInit ==
    /\ RouterIdle
    /\ StreakIdle
    /\ deckFile \in {"cards.ts", "cards.js"}
    /\ deckOptions \in [shuffled : BOOLEAN, seed : DeckSeeds]
    /\ \E r \in {NewDeck(deckFile, deckOptions,
                           [randomState |-> resetRandom, mathRandom |-> 1])} :
          /\ deckCards = r.deck
          /\ deckRandom = r.env.randomState
          /\ deckMath = r.env.mathRandom
    /\ dealtCards = <<>>
    /\ deckOps = 0
    /\ HandIdle
    /\ ManyIdle
    /\ NutsIdle
    /\ GameIdle
    /\ ParseIdle
    /\ ShuffleIdle
    /\ PlayIdle
    /\ SessionIdle

\* Deck.reset()
ResetDeck ==
    /\ deckOps < MaxDeckOps
    /\ deckOps' = deckOps + 1
    /\ \E r \in {NewDeck(deckFile, deckOptions, DeckEnv)} :
          /\ deckCards' = r.deck
          /\ deckRandom' = r.env.randomState
          /\ deckMath' = r.env.mathRandom
    /\ dealtCards' = <<>>
    /\ UNCHANGED <<deckFile, deckOptions>>
    /\ UNCHANGED <<handVars, manyVars, nutsVars, gameVars, parseVars, shuffleVars, playVars, sessionVars, routerVars, streakVars>>

\* Deck.shuffle(seed)
ShuffleTheDeck ==
    /\ deckOps < MaxDeckOps
    /\ deckOps' = deckOps + 1
    /\ \E seed \in DeckSeeds :
       \E r \in {IF deckFile = "cards.ts" THEN DeckShuffle(deckCards, seed, DeckEnv)
                  ELSE DeckShuffleJs(deckCards, SeedWord(seed), DeckEnv)} :
          /\ deckCards' = r.deck
          /\ deckRandom' = r.env.randomState
          /\ deckMath' = r.env.mathRandom
    /\ UNCHANGED <<deckFile, deckOptions, dealtCards>>
    /\ UNCHANGED <<handVars, manyVars, nutsVars, gameVars, parseVars, shuffleVars, playVars, sessionVars, routerVars, streakVars>>

\* Deck.deal(count)
DealFromDeck ==
    /\ deckOps < MaxDeckOps
    /\ deckOps' = deckOps + 1
    /\ \E count \in DealCounts :
       \E r \in {DeckDeal(deckCards, dealtCards, count)} :
          /\ deckCards' = r.cards
          /\ dealtCards' = r.dealtCards
    /\ UNCHANGED <<deckFile, deckOptions, deckRandom, deckMath>>
    /\ UNCHANGED <<handVars, manyVars, nutsVars, gameVars, parseVars, shuffleVars, playVars, sessionVars, routerVars, streakVars>>

DeckNext == ResetDeck \/ ShuffleTheDeck \/ DealFromDeck

DeckSpec == DeckInit /\ [][DeckNext]_vars

\* C18: the undealt cards followed by the dealt cards are the 52 cards of the
\* standard deck, each exactly once.
C18_DeckIsPartitionOfTheStandardDeck ==
    IsPermutation(deckCards \o dealtCards, generateDeck)

-----------------------------------------------------------------------------
(* Play harness: a game of The Nuts mounted by the router, played through  *)
(* its choice buttons, its timer, the "Play Again" button of the results   *)
(* and the navigation of the router away from the game and back.  A game   *)
(* is the record g = [level, timeLimit, state, currentScenario, buttons,   *)
(* pendingAdvance, timer, completedLevels, marked].  The timer counts in   *)
(* seconds; the scenarios of a game are its rounds 1..TotalRounds.         *)

\* config.rounds of TheNuts
TotalRounds == 15

\* The score endGame of TheNuts compares with.
PerfectScore == 15

\* Seconds between two observations of the running timer.
TickSeconds == 20

\* Most increments of state.mistakes in a game; a wrong answer makes two.
MaxMistakes == 2

\* Most navigations away from the game.
MaxNavigations == 1

\* config.timeLimit for the level the game is constructed with.
timeLimitOf(level) == IF level = "level3" THEN 30 ELSE 60

\* BaseGame.createInitialState()
createInitialState(limit) ==
    [currentRound |-> 0, totalRounds |-> TotalRounds, score |-> 0, streak |-> 0,
     bestStreak |-> 0, timeRemaining |-> limit, isComplete |-> FALSE,
     isPaused |-> FALSE, mistakes |-> 0]

\* new Timer({duration})
newTimer(duration) ==
    [duration |-> duration, remaining |-> duration, running |-> FALSE, elapsed |-> 0]

\* Timer.start(): nothing when the interval is set; else startTime = now.
timerStart(tm) == IF tm.running THEN tm ELSE [tm EXCEPT !.running = TRUE, !.elapsed = 0]

\* Timer.stop()
timerStop(tm) == [tm EXCEPT !.running = FALSE]

\* Timer.reset()
timerReset(tm) == [tm EXCEPT !.running = FALSE, !.remaining = tm.duration, !.elapsed = 0]

\* Timer.getRemaining()
getRemaining(tm) == Max(0, tm.remaining)

\* Timer.setTimeRemaining(seconds)
setTimeRemaining(tm, seconds) == [tm EXCEPT !.remaining = seconds, !.duration = seconds]

\* new TheNuts(level) followed by render(container): the initial state, a
\* new timer and an empty game area.  Storage is not part of the game object.
newGame(level, completed, lastMarked) ==
    [level |-> level, timeLimit |-> timeLimitOf(level),
     state |-> createInitialState(timeLimitOf(level)), currentScenario |-> 0,
     answers |-> [right |-> 0, wrong |-> 0],
     buttons |-> "none", pendingAdvance |-> FALSE,
     timer |-> newTimer(timeLimitOf(level)),
     completedLevels |-> completed, marked |-> lastMarked]

\* TheNuts.endGame() and BaseGame.endGame()
endGame(g) ==
    LET perfect == g.state.score = PerfectScore
    IN  [g EXCEPT
           !.completedLevels = IF perfect THEN @ \cup {g.level} ELSE @,
           !.marked = IF perfect
                      THEN <<[level |-> g.level, score |-> g.state.score,
                              mistakes |-> g.state.mistakes,
                              round |-> g.state.currentRound]>>
                      ELSE @,
           !.level = IF perfect /\ g.level = "level1" THEN "level2"
                     ELSE IF perfect /\ g.level = "level2" THEN "level3"
                     ELSE @,
           !.state.isComplete = TRUE,
           !.timer = timerStop(@)]

\* renderScenario(): fresh choice buttons when there is a scenario.
renderScenario(g) ==
    IF g.currentScenario = 0 THEN g ELSE [g EXCEPT !.buttons = "enabled"]

\* BaseGame.nextRound()
nextRound(g) ==
    IF g.state.currentRound >= g.state.totalRounds THEN endGame(g)
    ELSE renderScenario([g EXCEPT !.state.currentRound = @ + 1,
                                  !.currentScenario = g.state.currentRound + 1])

\* TheNuts.handleAnswerFeedback(isCorrect, answer)
handleAnswerFeedback(g, isCorrect) ==
    LET disabled == [g EXCEPT !.buttons = IF @ = "none" THEN @ ELSE "disabled"]
        counted == [disabled EXCEPT !.state.mistakes = @ + 1]
    IN  IF isCorrect THEN disabled
        ELSE IF counted.level /= "level1" THEN endGame(counted)
        ELSE counted

\* BaseGame.submitAnswer(answer), isCorrect being the result of checkAnswer.
submitAnswer(g, isCorrect) ==
    IF g.currentScenario = 0 \/ g.state.isPaused \/ g.state.isComplete THEN g
    ELSE LET scored ==
                 IF isCorrect
                 THEN [g EXCEPT !.answers.right = @ + 1,
                                !.state.score = @ + 1,
                                !.state.streak = @ + 1,
                                !.state.bestStreak = Max(@, g.state.streak + 1)]
                 ELSE [g EXCEPT !.answers.wrong = @ + 1,
                                !.state.streak = 0,
                                !.state.mistakes = @ + 1]
         IN  [handleAnswerFeedback(scored, isCorrect) EXCEPT !.pendingAdvance = TRUE]

\* The callback of the setTimeout of submitAnswer.
advance(g) ==
    LET fired == [g EXCEPT !.pendingAdvance = FALSE]
    IN  IF ~fired.state.isPaused /\ ~fired.state.isComplete THEN nextRound(fired)
        ELSE fired

\* Timer.tick() once seconds more have elapsed, with handleTimeUp().
tick(g, seconds) ==
    LET elapsed == g.timer.elapsed + seconds
        remaining == Max(0, g.timer.duration - elapsed)
        ticked == [g EXCEPT !.timer.elapsed = elapsed, !.timer.remaining = remaining]
    IN  IF remaining <= 0 THEN endGame([ticked EXCEPT !.timer = timerStop(@)])
        ELSE ticked

\* BaseGame.start(); initialize() leaves TotalRounds scenarios.
start(g) ==
    nextRound([g EXCEPT !.state.isPaused = FALSE, !.timer = timerStart(@)])

\* BaseGame.reset()
reset(g) ==
    [g EXCEPT !.state = createInitialState(g.timeLimit), !.currentScenario = 0,
              !.answers = [right |-> 0, wrong |-> 0],
              !.timer = timerReset(@)]

\* BaseGame.serialize() through JSON.stringify and JSON.parse: numbers and
\* booleans come back as they were.
serialize(g) ==
    [gameState |-> g.state, currentRound |-> g.state.currentRound,
     score |-> g.state.score, streak |-> g.state.streak,
     bestStreak |-> g.state.bestStreak, answers |-> g.answers,
     currentScenario |-> g.currentScenario]

\* BaseGame.deserialize(saved)
deserialize(g, saved) ==
    LET st == [g EXCEPT !.state = saved.gameState,
                        !.answers = saved.answers,
                        !.currentScenario = IF saved.currentScenario /= 0
                                            THEN saved.currentScenario ELSE @]
        tm == IF st.state.timeRemaining /= 0
              THEN [st EXCEPT !.timer = setTimeRemaining(@, st.state.timeRemaining)]
              ELSE st
    IN  renderScenario(tm)

\* The router showing the game again: a new game is rendered, mount restores
\* the saved state of a game that was not complete, and navigateToPath
\* calls deserialize once more whenever there is a saved state.
mountAgain(g, saved) ==
    LET fresh == newGame(g.level, g.completedLevels, g.marked)
        byMount == IF saved /= Null /\ ~saved[1].gameState.isComplete
                   THEN deserialize(fresh, saved[1]) ELSE fresh
    IN  IF saved /= Null THEN deserialize(byMount, saved[1]) ELSE byMount

\* Round, score, streak and timer position of a game.
ViewOf(g) ==
    <<[currentRound |-> g.state.currentRound, score |-> g.state.score,
       streak |-> g.state.streak, remaining |-> getRemaining(g.timer),
       isComplete |-> g.state.isComplete]>>

Game ==
    [level |-> playLevel, timeLimit |-> timeLimit, state |-> state,
     currentScenario |-> currentScenario, answers |-> answers, buttons |-> buttons,
     pendingAdvance |-> pendingAdvance, timer |-> timer,
     completedLevels |-> completedLevels, marked |-> marked]

SetGame(g) ==
    /\ playLevel' = g.level
    /\ timeLimit' = g.timeLimit
    /\ state' = g.state
    /\ currentScenario' = g.currentScenario
    /\ answers' = g.answers
    /\ buttons' = g.buttons
    /\ pendingAdvance' = g.pendingAdvance
    /\ timer' = g.timer
    /\ completedLevels' = g.completedLevels
    /\ marked' = g.marked

harnessVars == <<handVars, manyVars, nutsVars, gameVars, parseVars, shuffleVars, deckVars,
                 sessionVars, routerVars, streakVars>>

PlayInit ==
    /\ RouterIdle
    /\ StreakIdle
    /\ playLevel \in Levels
    /\ \E g \in {newGame(playLevel, {}, Null)} :
          /\ timeLimit = g.timeLimit
          /\ state = g.state
          /\ currentScenario = g.currentScenario
          /\ answers = g.answers
          /\ buttons = g.buttons
          /\ pendingAdvance = g.pendingAdvance
          /\ timer = g.timer
          /\ completedLevels = g.completedLevels
          /\ marked = g.marked
    /\ mounted = TRUE
    /\ stored = Null
    /\ savedView = Null
    /\ restoredView = Null
    /\ navigations = 0
    /\ HandIdle
    /\ ManyIdle
    /\ NutsIdle
    /\ GameIdle
    /\ ParseIdle
    /\ ShuffleIdle
    /\ DeckIdle
    /\ SessionIdle

\* The game is started: start() on a game that has not begun.
StartGame ==
    /\ mounted
    /\ state.currentRound = 0
    /\ ~state.isComplete
    /\ SetGame(start(Game))
    /\ savedView' = Null
    /\ restoredView' = Null
    /\ UNCHANGED <<mounted, stored, navigations>>
    /\ UNCHANGED harnessVars

\* A click on an enabled choice button: submitAnswer(choice.value), the
\* choice being the correct one or not.
ClickChoice ==
    /\ mounted
    /\ buttons = "enabled"
    /\ \E isCorrect \in BOOLEAN :
          /\ isCorrect \/ state.mistakes < MaxMistakes
          /\ SetGame(submitAnswer(Game, isCorrect))
    /\ savedView' = Null
    /\ restoredView' = Null
    /\ UNCHANGED <<mounted, stored, navigations>>
    /\ UNCHANGED harnessVars

\* The setTimeout of submitAnswer fires.
AdvanceTimeout ==
    /\ mounted
    /\ pendingAdvance
    /\ SetGame(advance(Game))
    /\ savedView' = Null
    /\ restoredView' = Null
    /\ UNCHANGED <<mounted, stored, navigations>>
    /\ UNCHANGED harnessVars

\* TickSeconds pass on the running timer.
TimerTick ==
    /\ mounted
    /\ timer.running
    /\ SetGame(tick(Game, TickSeconds))
    /\ savedView' = Null
    /\ restoredView' = Null
    /\ UNCHANGED <<mounted, stored, navigations>>
    /\ UNCHANGED harnessVars

\* "Play Again" of the results: reset() and start().
PlayAgain ==
    /\ mounted
    /\ state.isComplete
    /\ SetGame(start(reset(Game)))
    /\ savedView' = Null
    /\ restoredView' = Null
    /\ UNCHANGED <<mounted, stored, navigations>>
    /\ UNCHANGED harnessVars

\* Router.navigate to another page: saveState(), then unmount() of the game.
\* A timeout still pending belongs to the game left behind.
NavigateAway ==
    /\ mounted
    /\ navigations < MaxNavigations
    /\ navigations' = navigations + 1
    /\ stored' = <<serialize(Game)>>
    /\ savedView' = ViewOf(Game)
    /\ restoredView' = Null
    /\ mounted' = FALSE
    /\ SetGame([Game EXCEPT !.timer = timerStop(@), !.buttons = "none",
                             !.pendingAdvance = FALSE])
    /\ UNCHANGED harnessVars

\* Router.navigate back to the game: loadState(), mount() and deserialize().
\* The entry stays in sessionStorage, but the next saveState() overwrites it
\* before anything reads it, so it is not kept here.
NavigateBack ==
    /\ ~mounted
    /\ mounted' = TRUE
    /\ \E g \in {mountAgain(Game, stored)} :
          /\ SetGame(g)
          /\ restoredView' = ViewOf(g)
    /\ stored' = Null
    /\ UNCHANGED <<savedView, navigations>>
    /\ UNCHANGED harnessVars

PlayNext ==
    \/ StartGame
    \/ ClickChoice
    \/ AdvanceTimeout
    \/ TimerTick
    \/ PlayAgain
    \/ NavigateAway
    \/ NavigateBack

PlaySpec == PlayInit /\ [][PlayNext]_vars

\* C19: whenever a level was marked completed, the game had its perfect
\* score after all 15 rounds and without any mistake counted in it.
C19_CompletedOnlyWithoutWrongAnswer ==
    marked /= Null =>
        /\ marked[1].score = PerfectScore
        /\ marked[1].round = TotalRounds
        /\ marked[1].mistakes = 0

\* C20: a game in progress restored from its saved state is at the round,
\* the score, the streak and the remaining time it was saved with.
C20_RestorePreservesProgressAndTimer ==
    (restoredView /= Null /\ ~savedView[1].isComplete) => restoredView = savedView

\* C21: a game mounted by the router over the saved state of a completed
\* game starts fresh: it is at round 0 with score 0 and is not complete.
C21_CompletedGameStartsFresh ==
    (restoredView /= Null /\ savedView[1].isComplete) =>
        /\ restoredView[1].currentRound = 0
        /\ restoredView[1].score = 0
        /\ ~restoredView[1].isComplete

\* C24: mistakes is the number of wrong answers recorded and score the
\* number of right ones.
C24_MistakesCountWrongAnswers ==
    (mounted /\ state /= Null) =>
        (state.mistakes = answers.wrong /\ state.score = answers.right)

(***************************************************************************)
(* components/Timer.ts with its clock.  Times are in seconds; Date.now()   *)
(* is never 0, so 0 stands for the null of pauseStartTime as it stands for *)
(* the unset startTime.                                                    *)
(***************************************************************************)
\* Bound: the last second the clock reaches.
MaxClock == 6

\* Bound: the longest duration a timer is constructed with.
MaxDuration == 3

\* new Timer({duration})
Timer_new(duration) ==
    [duration |-> duration, remaining |-> duration, startTime |-> 0,
     intervalId |-> FALSE, isPaused |-> FALSE, pausedElapsedTime |-> 0,
     pauseStartTime |-> 0]

\* Timer.start(): nothing when the interval is set; else startTime = Date.now()
\* and the interval is set.
Timer_start(t, at) ==
    IF t.intervalId THEN t ELSE [t EXCEPT !.startTime = at, !.intervalId = TRUE]

\* Timer.stop()
Timer_stop(t) == [t EXCEPT !.intervalId = FALSE]

\* Timer.pause()
Timer_pause(t, at) ==
    IF ~t.isPaused /\ t.intervalId
        THEN Timer_stop([t EXCEPT !.isPaused = TRUE, !.pauseStartTime = at])
        ELSE t

\* Timer.resume(): the pause is added to pausedElapsedTime, and start()
\* then sets startTime to the time of the resume.
Timer_resume(t, at) ==
    IF t.isPaused
        THEN LET unpaused == [t EXCEPT !.isPaused = FALSE]
                 counted  == IF unpaused.pauseStartTime /= 0
                                 THEN [unpaused EXCEPT
                                          !.pausedElapsedTime = @ + (at - unpaused.pauseStartTime),
                                          !.pauseStartTime = 0]
                                 ELSE unpaused
             IN  Timer_start(counted, at)
        ELSE t

\* Timer.toggle()
Timer_toggle(t, at) == IF t.isPaused THEN Timer_resume(t, at) ELSE Timer_pause(t, at)

\* Timer.reset()
Timer_reset(t) ==
    [Timer_stop(t) EXCEPT !.remaining = t.duration, !.isPaused = FALSE,
                          !.pausedElapsedTime = 0, !.pauseStartTime = 0,
                          !.startTime = 0]

\* Timer.getElapsed()
Timer_getElapsed(t, at) ==
    IF t.startTime = 0
        THEN 0
        ELSE LET until == IF t.isPaused /\ t.pauseStartTime /= 0
                              THEN t.pauseStartTime ELSE at
             IN  until - t.startTime - t.pausedElapsedTime

\* Timer.tick(): the timer after the tick, and whether onComplete is called.
Timer_tick(t, at) ==
    LET left   == t.duration - Timer_getElapsed(t, at)
        ticked == [t EXCEPT !.remaining = IF left > 0 THEN left ELSE 0]
    IN  IF ticked.remaining <= 0
            THEN [timer |-> Timer_stop(ticked), completed |-> TRUE]
            ELSE [timer |-> ticked, completed |-> FALSE]

\* The session fields while there is only a timer.
NoSession ==
    /\ sConfig = Null
    /\ sState = Null
    /\ sScenario = 0
    /\ sAnswers = 0
    /\ sPending = <<>>
    /\ sAwaiting = FALSE
    /\ sEndings = 0

noSessionVars == <<sConfig, sState, sScenario, sAnswers, sPending, sAwaiting, sEndings>>
nonSessionVars == <<handVars, manyVars, nutsVars, gameVars, parseVars, shuffleVars,
                    deckVars, playVars, routerVars, streakVars>>

\* A timer without callbacks is constructed.
TimerInit ==
    /\ RouterIdle
    /\ StreakIdle
    /\ HandIdle
    /\ ManyIdle
    /\ NutsIdle
    /\ GameIdle
    /\ ParseIdle
    /\ ShuffleIdle
    /\ DeckIdle
    /\ PlayIdle
    /\ NoSession
    /\ now = 1
    /\ \E duration \in 1..MaxDuration : tmr = Timer_new(duration)

\* timer.start(), called once: what follows it are pauses and resumes.
TimerStart ==
    /\ tmr.startTime = 0
    /\ tmr' = Timer_start(tmr, now)
    /\ UNCHANGED <<now, noSessionVars, nonSessionVars>>

\* timer.pause()
TimerPause ==
    /\ tmr' = Timer_pause(tmr, now)
    /\ UNCHANGED <<now, noSessionVars, nonSessionVars>>

\* timer.resume()
TimerResume ==
    /\ tmr' = Timer_resume(tmr, now)
    /\ UNCHANGED <<now, noSessionVars, nonSessionVars>>

\* A second passes; the interval callback tick() runs if the interval is set.
TimerSecond ==
    /\ now < MaxClock
    /\ now' = now + 1
    /\ tmr' = IF tmr.intervalId THEN Timer_tick(tmr, now + 1).timer ELSE tmr
    /\ UNCHANGED <<noSessionVars, nonSessionVars>>

TimerNext == TimerStart \/ TimerPause \/ TimerResume \/ TimerSecond

TimerSpec == TimerInit /\ [][TimerNext]_vars

\* C22: the remaining time of a timer that is started, paused and resumed
\* never increases.
C22_RemainingNeverIncreases == [][tmr'.remaining <= tmr.remaining]_vars

(***************************************************************************)
(* games/BaseGame.ts played through its own methods, with its Timer, its   *)
(* auto-advance timeouts and its results dialog.  A game g is the record   *)
(* [config, state, scenario, answers, pending, awaiting, endings, timer].  *)
(***************************************************************************)
\* Bound: the rounds of the game played.
SessionRounds == 2

\* Bound: the answers submitted in one game.
MaxAnswers == 3

\* Bound: the auto-advance timeouts pending at once.
MaxPending == 2

\* The delays of the auto-advance timeout, in milliseconds.
CorrectDelay == 500
WrongDelay == 2000

\* The number of times the clock of seconds can advance before a timeout of
\* the given delay has fired.
SecondsWithin(delay) == (delay + 999) \div 1000

\* The sequence s without its i-th element.
Without(s, i) == SubSeq(s, 1, i - 1) \o SubSeq(s, i + 1, Len(s))

\* BaseGame.createInitialState()
BaseGame_createInitialState(config) ==
    [currentRound |-> 0, totalRounds |-> config.rounds, score |-> 0, streak |-> 0,
     bestStreak |-> 0, timeRemaining |-> config.timeLimit, isComplete |-> FALSE,
     isPaused |-> FALSE, mistakes |-> 0]

\* new BaseGame(config) and setupUI(): the timer exists if timeLimit is set.
BaseGame_new(config) ==
    [config |-> config, state |-> BaseGame_createInitialState(config), scenario |-> 0,
     answers |-> 0, pending |-> <<>>, awaiting |-> FALSE, endings |-> 0,
     timer |-> IF config.timeLimit /= 0 THEN Timer_new(config.timeLimit) ELSE Null]

\* BaseGame.endGame(): the counter of games played is incremented and a
\* results dialog is opened, once for each run.
BaseGame_endGame(g) ==
    [g EXCEPT !.state.isComplete = TRUE,
              !.timer = IF g.timer /= Null THEN Timer_stop(g.timer) ELSE Null,
              !.endings = @ + 1,
              !.awaiting = FALSE]

\* BaseGame.nextRound()
BaseGame_nextRound(g) ==
    IF g.state.currentRound >= g.state.totalRounds
        THEN BaseGame_endGame(g)
        ELSE [g EXCEPT !.state.currentRound = @ + 1,
                       !.scenario = g.state.currentRound + 1,
                       !.awaiting = FALSE]

\* BaseGame.start()
BaseGame_start(g, at) ==
    BaseGame_nextRound(
        [g EXCEPT !.state.isPaused = FALSE,
                  !.timer = IF g.timer /= Null THEN Timer_start(g.timer, at) ELSE Null])

\* BaseGame.pause()
BaseGame_pause(g, at) ==
    [g EXCEPT !.state.isPaused = TRUE,
              !.timer = IF g.timer /= Null THEN Timer_pause(g.timer, at) ELSE Null]

\* BaseGame.resume()
BaseGame_resume(g, at) ==
    [g EXCEPT !.state.isPaused = FALSE,
              !.timer = IF g.timer /= Null THEN Timer_resume(g.timer, at) ELSE Null]

\* BaseGame.reset(); the timeouts already set stay pending.
BaseGame_reset(g) ==
    [g EXCEPT !.state = BaseGame_createInitialState(g.config),
              !.answers = 0,
              !.scenario = 0,
              !.timer = IF g.timer /= Null THEN Timer_reset(g.timer) ELSE Null,
              !.endings = 0,
              !.awaiting = FALSE]

\* BaseGame.submitAnswer(answer), isCorrect being the result of checkAnswer.
BaseGame_submitAnswer(g, isCorrect) ==
    IF g.scenario = 0 \/ g.state.isPaused \/ g.state.isComplete
        THEN g
        ELSE LET scored == IF isCorrect
                               THEN [g EXCEPT !.state.score = @ + 1,
                                              !.state.streak = @ + 1,
                                              !.state.bestStreak =
                                                  Max(@, g.state.streak + 1)]
                               ELSE [g EXCEPT !.state.streak = 0,
                                              !.state.mistakes = @ + 1]
                 delay  == IF isCorrect THEN CorrectDelay ELSE WrongDelay
             IN  [scored EXCEPT !.answers = @ + 1,
                                !.pending = Append(@, SecondsWithin(delay)),
                                !.awaiting = TRUE]

\* The callback submitAnswer passes to setTimeout, for the i-th pending one.
BaseGame_autoAdvance(g, i) ==
    LET fired == [g EXCEPT !.pending = Without(@, i)]
    IN  IF ~fired.state.isPaused /\ ~fired.state.isComplete
            THEN BaseGame_nextRound(fired)
            ELSE fired

\* BaseGame.handleTimeUp()
BaseGame_handleTimeUp(g) == BaseGame_endGame(g)

Session ==
    [config |-> sConfig, state |-> sState, scenario |-> sScenario, answers |-> sAnswers,
     pending |-> sPending, awaiting |-> sAwaiting, endings |-> sEndings, timer |-> tmr]

SetSession(g) ==
    /\ sConfig' = g.config
    /\ sState' = g.state
    /\ sScenario' = g.scenario
    /\ sAnswers' = g.answers
    /\ sPending' = g.pending
    /\ sAwaiting' = g.awaiting
    /\ sEndings' = g.endings
    /\ tmr' = g.timer

\* The time limits of the games played: none, and MaxDuration seconds.
SessionConfigs == {[rounds |-> SessionRounds, timeLimit |-> limit] : limit \in {0, MaxDuration}}

\* A game is constructed and mounted.
SessionInit ==
    /\ RouterIdle
    /\ StreakIdle
    /\ HandIdle
    /\ ManyIdle
    /\ NutsIdle
    /\ GameIdle
    /\ ParseIdle
    /\ ShuffleIdle
    /\ DeckIdle
    /\ PlayIdle
    /\ now = 1
    /\ \E config \in SessionConfigs :
           LET g == BaseGame_new(config)
           IN  /\ sConfig = g.config
               /\ sState = g.state
               /\ sScenario = g.scenario
               /\ sAnswers = g.answers
               /\ sPending = g.pending
               /\ sAwaiting = g.awaiting
               /\ sEndings = g.endings
               /\ tmr = g.timer

\* game.start(), called once on the mounted game.
SessionStart ==
    /\ sState.currentRound = 0
    /\ sScenario = 0
    /\ ~sState.isComplete
    /\ SetSession(BaseGame_start(Session, now))
    /\ UNCHANGED <<now, nonSessionVars>>

\* game.submitAnswer(answer)
SessionSubmit ==
    /\ sAnswers < MaxAnswers
    /\ Len(sPending) < MaxPending
    /\ \E isCorrect \in BOOLEAN : SetSession(BaseGame_submitAnswer(Session, isCorrect))
    /\ UNCHANGED <<now, nonSessionVars>>

\* game.pause()
SessionPause ==
    /\ SetSession(BaseGame_pause(Session, now))
    /\ UNCHANGED <<now, nonSessionVars>>

\* game.resume()
SessionResume ==
    /\ SetSession(BaseGame_resume(Session, now))
    /\ UNCHANGED <<now, nonSessionVars>>

\* A click on the timer element: Timer.toggle(), allowPause being set.
SessionTimerClick ==
    /\ tmr /= Null
    /\ tmr' = Timer_toggle(tmr, now)
    /\ UNCHANGED <<now, noSessionVars, nonSessionVars>>

\* An auto-advance timeout fires.
SessionTimeout ==
    /\ \E i \in 1..Len(sPending) : SetSession(BaseGame_autoAdvance(Session, i))
    /\ UNCHANGED <<now, nonSessionVars>>

\* A second passes in a game with a timer, no pending timeout being overdue;
\* the timer's interval callback runs if the interval is set, and calls
\* handleTimeUp when no time remains.  (A game without a timer has no clock:
\* its timeouts fire at any later time.)
SessionSecond ==
    /\ tmr /= Null
    /\ now < MaxClock
    /\ \A i \in 1..Len(sPending) : sPending[i] > 0
    /\ now' = now + 1
    /\ LET aged   == [Session EXCEPT !.pending = [i \in 1..Len(sPending) |-> sPending[i] - 1]]
           ticked == Timer_tick(tmr, now + 1)
           after  == [aged EXCEPT !.timer = ticked.timer]
       IN  SetSession(IF ~tmr.intervalId THEN aged
                      ELSE IF ticked.completed THEN BaseGame_handleTimeUp(after)
                      ELSE after)
    /\ UNCHANGED nonSessionVars

\* "Play Again" in a results dialog: reset() and start().
SessionPlayAgain ==
    /\ sEndings > 0
    /\ SetSession(BaseGame_start(BaseGame_reset(Session), now))
    /\ UNCHANGED <<now, nonSessionVars>>

SessionNext ==
    \/ SessionStart
    \/ SessionSubmit
    \/ SessionPause
    \/ SessionResume
    \/ SessionTimerClick
    \/ SessionTimeout
    \/ SessionSecond
    \/ SessionPlayAgain

SessionSpec == SessionInit /\ [][SessionNext]_vars

\* Timeouts that are set fire, and a paused game is resumed.
SessionLiveSpec ==
    SessionInit /\ [][SessionNext]_vars /\ WF_vars(SessionTimeout) /\ WF_vars(SessionResume)

\* C23: the answers recorded in a game never outnumber the rounds presented,
\* which never outnumber the rounds of the game, nor does the score.
C23_OneAnswerPerRound ==
    /\ sAnswers <= sState.currentRound
    /\ sState.currentRound <= sState.totalRounds
    /\ sState.score <= sState.totalRounds

\* C25: between a start and the next reset, endGame runs at most once.
C25_EndGameOncePerGame == sEndings <= 1

\* C26: in a game without a time limit, an accepted answer is eventually
\* followed by the next round or by the end of the game.
C26_AnswerLeadsToNextRoundOrEnd ==
    (sConfig.timeLimit = 0 /\ sAwaiting) ~> ~sAwaiting

\* C27: every round before the current one was left by an answer given in
\* this game: the current round is at most one more than the answers.
C27_NoRoundPassedOverUnanswered == sState.currentRound <= sAnswers + 1

(***************************************************************************)
(* lib/router.ts.  A router r is the record [path, module, storage,        *)
(* mounted, pending, restored, failed]; the module a route's loader gives  *)
(* is named by the route's path, and the state a module serializes by the  *)
(* module.                                                                 *)
(***************************************************************************)
\* Bound: the navigations after the initial one.
MaxRouterNavs == 3

\* The registered routes.
Routes == {"/", "/hand-vs-hand", "/the-nuts"}

\* Router.saveState(): the current module's state goes under the key of the
\* current path (getStateKey).
Router_saveState(r) ==
    IF r.module /= ""
        THEN [r EXCEPT !.storage[r.path] = r.module]
        ELSE r

\* Router.navigateToPath(path, saveCurrentState) up to its await of the
\* route's loader.
Router_navigateToPath(r, path, saveCurrentState) ==
    LET saved == IF saveCurrentState THEN Router_saveState(r) ELSE r
    IN  [saved EXCEPT !.mounted = @ \ {saved.module},
                      !.path = path,
                      !.pending = Append(@, path)]

\* Router.navigate(path)
Router_navigate(r, path) == Router_navigateToPath(Router_saveState(r), path, FALSE)

\* Router.navigateToPath after the await, the loader of the i-th pending
\* navigation having given its module: loadState() reads the key of the
\* path that is current now.
Router_loaded(r, i) ==
    LET module == r.pending[i]
    IN  [r EXCEPT !.pending = Without(@, i),
                  !.module = module,
                  !.mounted = @ \cup {module},
                  !.restored = [module |-> module, owner |-> r.storage[r.path]]]

\* Router.navigateToPath after the await, the loader of the i-th pending
\* navigation having failed: the catch block.
Router_loadFailed(r, i) ==
    [r EXCEPT !.pending = Without(@, i), !.failed = TRUE]

TheRouter ==
    [path |-> rPath, module |-> rModule, storage |-> rStorage, mounted |-> rMounted,
     pending |-> rPending, restored |-> rRestored, failed |-> rFailed]

SetRouter(r) ==
    /\ rPath' = r.path
    /\ rModule' = r.module
    /\ rStorage' = r.storage
    /\ rMounted' = r.mounted
    /\ rPending' = r.pending
    /\ rRestored' = r.restored
    /\ rFailed' = r.failed

nonRouterVars == <<handVars, manyVars, nutsVars, gameVars, parseVars, shuffleVars,
                   deckVars, playVars, sessionVars, streakVars>>

\* new Router(options): handleInitialNavigation() navigates to the path of
\* the page, with an empty sessionStorage.
RouterInit ==
    /\ HandIdle
    /\ ManyIdle
    /\ NutsIdle
    /\ GameIdle
    /\ ParseIdle
    /\ ShuffleIdle
    /\ DeckIdle
    /\ PlayIdle
    /\ SessionIdle
    /\ StreakIdle
    /\ rCount = 0
    /\ \E path \in Routes :
           LET r == Router_navigateToPath(
                        [path |-> "", module |-> "", storage |-> [p \in Routes |-> ""],
                         mounted |-> {}, pending |-> <<>>,
                         restored |-> [module |-> "", owner |-> ""], failed |-> FALSE],
                        path, FALSE)
           IN  /\ rPath = r.path
               /\ rModule = r.module
               /\ rStorage = r.storage
               /\ rMounted = r.mounted
               /\ rPending = r.pending
               /\ rRestored = r.restored
               /\ rFailed = r.failed

\* router.navigate(path)
RouterNavigate ==
    /\ rCount < MaxRouterNavs
    /\ rCount' = rCount + 1
    /\ \E path \in Routes : SetRouter(Router_navigate(TheRouter, path))
    /\ UNCHANGED nonRouterVars

\* The browser's back or forward button: handlePopState().
RouterPopState ==
    /\ rCount < MaxRouterNavs
    /\ rCount' = rCount + 1
    /\ \E path \in Routes : SetRouter(Router_navigateToPath(TheRouter, path, FALSE))
    /\ UNCHANGED nonRouterVars

\* A route loader resolves.
RouterLoaded ==
    /\ \E i \in 1..Len(rPending) : SetRouter(Router_loaded(TheRouter, i))
    /\ UNCHANGED <<rCount, nonRouterVars>>

\* A route loader rejects.
RouterLoadFails ==
    /\ \E i \in 1..Len(rPending) : SetRouter(Router_loadFailed(TheRouter, i))
    /\ UNCHANGED <<rCount, nonRouterVars>>

RouterNext == RouterNavigate \/ RouterPopState \/ RouterLoaded \/ RouterLoadFails

RouterSpec == RouterInit /\ [][RouterNext]_vars

\* C28: once every navigation has settled, no loader having failed, exactly
\* one module is mounted, and it is the module of the current path.
C28_OneModuleOfTheCurrentPathMounted ==
    (rPath /= "" /\ rPending = <<>> /\ ~rFailed) =>
        (rMounted = {rPath} /\ rModule = rPath)

\* C29: the state under the key of a path was serialized by that path's
\* module, and a module is given no state but its own.
C29_StoredStateBelongsToItsPath ==
    rPath /= "" =>
        /\ \A p \in Routes : rStorage[p] \in {"", p}
        /\ rRestored.owner \in {"", rRestored.module}

(***************************************************************************)
(* The answer handlers of the games: BaseGame.submitAnswer, the            *)
(* handleAnswer of HandVsHand and of BestFiveFromSeven, which extend       *)
(* BaseGame, and BaseGameRefactored.submitAnswer with its GameStateManager.*)
(* The game is a record g as above, without a timer.                       *)
(***************************************************************************)
\* Bound: the rounds of the games answered.
StreakRounds == 4

\* The delay of the timeout of handleAnswer, in milliseconds.
FeedbackDelay == 3000

\* HandVsHand.handleAnswer(answerId), isCorrect being answerId === winner.
HandVsHand_handleAnswer(g, isCorrect) ==
    IF g.scenario = 0
        THEN g
        ELSE LET scored == IF isCorrect
                               THEN [g EXCEPT !.state.score = @ + 1, !.state.streak = @ + 1]
                               ELSE [g EXCEPT !.state.streak = 0]
             IN  [scored EXCEPT !.pending = Append(@, SecondsWithin(FeedbackDelay))]

\* The callback HandVsHand.handleAnswer passes to setTimeout; renderScenario
\* presents scenarios[currentRound].
HandVsHand_continue(g) ==
    LET fired == [g EXCEPT !.pending = Tail(@)]
    IN  IF fired.state.currentRound < fired.config.rounds - 1
            THEN [fired EXCEPT !.state.currentRound = @ + 1,
                               !.scenario = fired.state.currentRound + 2]
            ELSE [fired EXCEPT !.state.isComplete = TRUE]

\* BestFiveFromSeven.handleAnswer(answerId), isCorrect being
\* answerId === 'correct'.
BestFiveFromSeven_handleAnswer(g, isCorrect) ==
    IF g.scenario = 0
        THEN g
        ELSE LET scored == IF isCorrect
                               THEN [g EXCEPT !.state.score = @ + 1, !.state.streak = @ + 1]
                               ELSE [g EXCEPT !.state.streak = 0]
             IN  [scored EXCEPT !.pending = Append(@, SecondsWithin(FeedbackDelay))]

\* The callback BestFiveFromSeven.handleAnswer passes to setTimeout.
BestFiveFromSeven_continue(g) ==
    LET fired == [g EXCEPT !.pending = Tail(@)]
    IN  IF fired.state.currentRound < fired.config.rounds - 1
            THEN [fired EXCEPT !.state.currentRound = @ + 1,
                               !.scenario = fired.state.currentRound + 2]
            ELSE [fired EXCEPT !.state.isComplete = TRUE]

\* GameStateManager.incrementScore()
GameStateManager_incrementScore(st) ==
    [st EXCEPT !.score = @ + 1, !.streak = @ + 1,
               !.bestStreak = Max(@, st.streak + 1)]

\* GameStateManager.recordMistake()
GameStateManager_recordMistake(st) ==
    [st EXCEPT !.mistakes = @ + 1, !.streak = 0]

\* BaseGameRefactored.submitAnswer(answer)
BaseGameRefactored_submitAnswer(g, isCorrect) ==
    IF g.scenario = 0 \/ g.state.isPaused \/ g.state.isComplete
        THEN g
        ELSE LET delay == IF isCorrect THEN CorrectDelay ELSE WrongDelay
             IN  [g EXCEPT !.state = IF isCorrect
                                         THEN GameStateManager_incrementScore(@)
                                         ELSE GameStateManager_recordMistake(@),
                           !.answers = @ + 1,
                           !.pending = Append(@, SecondsWithin(delay))]

\* The callback BaseGameRefactored.submitAnswer passes to setTimeout:
\* nextRound() with GameStateManager.nextRound(), endGame() completing the
\* game.
BaseGameRefactored_autoAdvance(g) ==
    LET fired == [g EXCEPT !.pending = Tail(@)]
    IN  IF fired.state.isPaused \/ fired.state.isComplete
            THEN fired
            ELSE IF fired.state.currentRound >= fired.state.totalRounds
                     THEN [fired EXCEPT !.state.isComplete = TRUE]
                     ELSE [fired EXCEPT !.state.currentRound = @ + 1,
                                        !.scenario = fired.state.currentRound + 1]

GameKinds == {"BaseGame", "HandVsHand", "BestFiveFromSeven", "BaseGameRefactored"}

\* The handler a game of the given kind answers with.
AnswerOf(kind, g, isCorrect) ==
    CASE kind = "BaseGame"           -> BaseGame_submitAnswer(g, isCorrect)
      [] kind = "HandVsHand"         -> HandVsHand_handleAnswer(g, isCorrect)
      [] kind = "BestFiveFromSeven"  -> BestFiveFromSeven_handleAnswer(g, isCorrect)
      [] kind = "BaseGameRefactored" -> BaseGameRefactored_submitAnswer(g, isCorrect)

\* The timeout callback of that handler.
ContinueOf(kind, g) ==
    CASE kind = "BaseGame"           -> BaseGame_autoAdvance(g, 1)
      [] kind = "HandVsHand"         -> HandVsHand_continue(g)
      [] kind = "BestFiveFromSeven"  -> BestFiveFromSeven_continue(g)
      [] kind = "BaseGameRefactored" -> BaseGameRefactored_autoAdvance(g)

nonStreakVars == <<handVars, manyVars, nutsVars, gameVars, parseVars, shuffleVars,
                   deckVars, playVars, sessionVars, routerVars>>

\* A game of some kind is constructed and mounted.
StreakInit ==
    /\ HandIdle
    /\ ManyIdle
    /\ NutsIdle
    /\ GameIdle
    /\ ParseIdle
    /\ ShuffleIdle
    /\ DeckIdle
    /\ PlayIdle
    /\ SessionIdle
    /\ RouterIdle
    /\ kKind \in GameKinds
    /\ kState = BaseGame_new([rounds |-> StreakRounds, timeLimit |-> 0])
    /\ kRun = 0
    /\ kLongest = 0

\* game.start(): every kind has BaseGame's first round.
StreakStart ==
    /\ kState.state.currentRound = 0
    /\ kState.scenario = 0
    /\ kState' = BaseGame_start(kState, 0)
    /\ UNCHANGED <<kKind, kRun, kLongest, nonStreakVars>>

\* The player answers the round presented, its controls being enabled.
StreakAnswer ==
    /\ kState.scenario /= 0
    /\ kState.pending = <<>>
    /\ ~kState.state.isComplete
    /\ \E isCorrect \in BOOLEAN :
           /\ kState' = AnswerOf(kKind, kState, isCorrect)
           /\ kRun' = IF isCorrect THEN kRun + 1 ELSE 0
           /\ kLongest' = IF isCorrect THEN Max(kLongest, kRun + 1) ELSE kLongest
    /\ UNCHANGED <<kKind, nonStreakVars>>

\* The timeout of the answer fires.
StreakContinue ==
    /\ kState.pending /= <<>>
    /\ kState' = ContinueOf(kKind, kState)
    /\ UNCHANGED <<kKind, kRun, kLongest, nonStreakVars>>

StreakNext == StreakStart \/ StreakAnswer \/ StreakContinue

StreakSpec == StreakInit /\ [][StreakNext]_vars

\* C30: in every game bestStreak is at least streak, and it is the longest
\* run of consecutive correct answers given so far.
C30_BestStreakIsLongestRun ==
    kKind /= "" =>
        /\ kState.state.bestStreak >= kState.state.streak
        /\ kState.state.bestStreak = kLongest

====
